---------------------------- MODULE Spec2Model ----------------------------
(***************************************************************************)
(* A model of the binlog/Avro comparison toolset.                          *)
(*                                                                         *)
(*   compare_timestamps (src/unnamed/part_000): loadBinlogData builds the  *)
(*   index binlogEvents from the normalized JSON lines, then               *)
(*   compareAvroWithBinlog streams the Avro JSON lines against it and      *)
(*   prints the findings, the summary and the conclusion.                  *)
(*                                                                         *)
(*   json_parser (src/json_parser.go): reads the text blocks of a binlog   *)
(*   dump from stdin and prints one JSON event for each block.             *)
(*                                                                         *)
(* Strings are TLA+ strings, on which TLC evaluates Len, SubSeq and \o, so  *)
(* the functions of package strings are computed character by character.   *)
(* A JSON value carries its JSON type, so that decoding into a typed Go     *)
(* field can fail as encoding/json does.                                   *)
(***************************************************************************)
EXTENDS Integers, Sequences, FiniteSets, TLC

VARIABLES
    pc,                 \* where compare_timestamps is: "idle" (not run),
                        \* "load", "compare", "done"
    binlogEvents,       \* part_000:73  map[BinlogKey]BinlogEvent
    loadLineNum,        \* part_000:109 lineNum of loadBinlogData
    lineNum,            \* part_000:162 lineNum of compareAvroWithBinlog
    matches,            \* part_000:163
    mismatches,         \* part_000:164
    avroOnly,           \* part_000:165
    binlogMatchedKeys,  \* part_000:166 the keys k with binlogMatchedKeys[k] = true
    binlogOnly,         \* part_000:254
    stdout,             \* the lines printed with fmt.Printf / fmt.Println
    stderr,             \* the lines printed to os.Stderr
    binlogRead,         \* history: the lines of the first file read so far
    avroRead,           \* history: the lines of the second file read so far
    parserPc,           \* where json_parser is: "idle" (not run), "start",
                        \* "scan", "done" (exit status 0), "usage" (exit status 1)
    osArgs,             \* json_parser.go:16 os.Args
    binlogFileBasename, \* json_parser.go:24
    currentEvent,       \* json_parser.go:27
    parserStdout,       \* the lines json_parser printed with fmt.Println
    parserStderr,       \* the lines json_parser printed to os.Stderr
    stdinRead           \* history: the lines json_parser read from os.Stdin

comparatorVars == <<pc, binlogEvents, loadLineNum, lineNum, matches, mismatches,
                    avroOnly, binlogMatchedKeys, binlogOnly, stdout, stderr,
                    binlogRead, avroRead>>

parserVars == <<parserPc, osArgs, binlogFileBasename, currentEvent, parserStdout,
                parserStderr, stdinRead>>

vars == <<comparatorVars, parserVars>>

---------------------------------------------------------------------------
(* Bounds of the model *)

MaxBinlogLines == 2
MaxAvroLines == 2
MaxStdinLines == 4

---------------------------------------------------------------------------
(* strings *)

HasSuffix(s, suffix) ==
    /\ Len(s) >= Len(suffix)
    /\ SubSeq(s, Len(s) - Len(suffix) + 1, Len(s)) = suffix

LowerLetters == "abcdefghijklmnopqrstuvwxyz"
UpperLetters == "ABCDEFGHIJKLMNOPQRSTUVWXYZ"

\* The character at position i of s, as a string of length 1
CharAt(s, i) == SubSeq(s, i, i)

\* unicode.ToUpper on an ASCII character
UpperChar(c) ==
    IF \E i \in 1..Len(LowerLetters) : CharAt(LowerLetters, i) = c
        THEN CharAt(UpperLetters,
                    CHOOSE i \in 1..Len(LowerLetters) : CharAt(LowerLetters, i) = c)
        ELSE c

\* strings.ToUpper
RECURSIVE ToUpper(_)
ToUpper(s) ==
    IF s = "" THEN "" ELSE UpperChar(Head(s)) \o ToUpper(Tail(s))

WriteRowsEventV2 == "WriteRowsEventV2"
UpdateRowsEventV2 == "UpdateRowsEventV2"
DeleteRowsEventV2 == "DeleteRowsEventV2"
XID == "XID"

\* strings.HasPrefix
HasPrefix(s, prefix) ==
    /\ Len(s) >= Len(prefix)
    /\ SubSeq(s, 1, Len(prefix)) = prefix

\* strings.Contains
Contains(s, substr) ==
    \E i \in 1..(Len(s) - Len(substr) + 1) :
        SubSeq(s, i, i + Len(substr) - 1) = substr

\* strings.TrimSuffix
TrimSuffix(s, suffix) ==
    IF HasSuffix(s, suffix) THEN SubSeq(s, 1, Len(s) - Len(suffix)) ELSE s

\* strings.Index and strings.LastIndex of a one-character string, counted
\* from 1; 0 when c is not in s (Go counts from 0 and answers -1)
Index(s, c) ==
    IF \E i \in 1..Len(s) : CharAt(s, i) = c
        THEN CHOOSE i \in 1..Len(s) :
                /\ CharAt(s, i) = c
                /\ \A j \in 1..(i - 1) : CharAt(s, j) # c
        ELSE 0

LastIndex(s, c) ==
    IF \E i \in 1..Len(s) : CharAt(s, i) = c
        THEN CHOOSE i \in 1..Len(s) :
                /\ CharAt(s, i) = c
                /\ \A j \in (i + 1)..Len(s) : CharAt(s, j) # c
        ELSE 0

\* unicode.IsSpace on the characters the inputs are written with
IsSpace(c) == c = " " \/ c = "\t"

\* strings.TrimSpace
RECURSIVE TrimLeft(_)
TrimLeft(s) ==
    IF s # "" /\ IsSpace(Head(s)) THEN TrimLeft(Tail(s)) ELSE s

RECURSIVE TrimRight(_)
TrimRight(s) ==
    IF s # "" /\ IsSpace(CharAt(s, Len(s)))
        THEN TrimRight(SubSeq(s, 1, Len(s) - 1))
        ELSE s

TrimSpace(s) == TrimRight(TrimLeft(s))

\* unicode.ToLower on an ASCII character
LowerChar(c) ==
    IF \E i \in 1..Len(UpperLetters) : CharAt(UpperLetters, i) = c
        THEN CharAt(LowerLetters,
                    CHOOSE i \in 1..Len(UpperLetters) : CharAt(UpperLetters, i) = c)
        ELSE c

\* strings.ToLower
RECURSIVE ToLower(_)
ToLower(s) ==
    IF s = "" THEN "" ELSE LowerChar(Head(s)) \o ToLower(Tail(s))

\* strings.ReplaceAll(s, old, new) for an old of one character
RECURSIVE ReplaceAll(_, _, _)
ReplaceAll(s, old, new) ==
    IF s = "" THEN ""
    ELSE (IF Head(s) = old THEN new ELSE Head(s)) \o ReplaceAll(Tail(s), old, new)

Digits == "0123456789"

IsDigit(c) == \E i \in 1..Len(Digits) : CharAt(Digits, i) = c

DigitValue(c) == (CHOOSE i \in 1..Len(Digits) : CharAt(Digits, i) = c) - 1

AllDigits(s) == \A i \in 1..Len(s) : IsDigit(CharAt(s, i))

\* The number a string of digits is written for
RECURSIVE Atoi(_)
Atoi(s) ==
    IF s = "" THEN 0
    ELSE Atoi(SubSeq(s, 1, Len(s) - 1)) * 10 + DigitValue(CharAt(s, Len(s)))

RECURSIVE TrimLeadingZeros(_)
TrimLeadingZeros(s) ==
    IF Len(s) > 1 /\ Head(s) = "0" THEN TrimLeadingZeros(Tail(s)) ELSE s

\* a < b or a = b for two strings of digits of the same length
RECURSIVE DigitsLeq(_, _)
DigitsLeq(a, b) ==
    IF a = "" THEN TRUE
    ELSE IF DigitValue(Head(a)) # DigitValue(Head(b))
        THEN DigitValue(Head(a)) < DigitValue(Head(b))
    ELSE DigitsLeq(Tail(a), Tail(b))

MaxInt64Digits == "9223372036854775807"
MinInt64Digits == "9223372036854775808"

\* strconv.ParseInt(s, 10, 64): an optional sign and then digits only, of a
\* value that an int64 holds.  val is a TLC integer, so the inputs stay
\* below 2^31.
ParseInt(s) ==
    LET signed == s # "" /\ (Head(s) = "+" \/ Head(s) = "-")
        neg == s # "" /\ Head(s) = "-"
        digits == IF signed THEN Tail(s) ELSE s
        significant == TrimLeadingZeros(digits)
        limit == IF neg THEN MinInt64Digits ELSE MaxInt64Digits
        inRange == \/ Len(significant) < Len(limit)
                   \/ Len(significant) = Len(limit) /\ DigitsLeq(significant, limit)
    IN  IF digits = "" \/ ~AllDigits(digits) \/ ~inRange
            THEN [err |-> TRUE, val |-> 0]
        ELSE [err |-> FALSE,
              val |-> IF neg THEN -Atoi(significant) ELSE Atoi(significant)]

---------------------------------------------------------------------------
(* package time, as far as the comparison uses it. An instant is          *)
(* [sec, nsec]: seconds since the Unix epoch and nanoseconds within the    *)
(* second.  A Duration is a count of nanoseconds; Go keeps it in an int64  *)
(* and Sub saturates, the model keeps it in TLC's 32-bit integers and      *)
(* saturates there.                                                        *)

Millisecond == 1000000
Second == 1000000000
maxDuration == 2147483647
minDuration == (-maxDuration) - 1
\* time.Time{}: January 1, year 1, 00:00:00 UTC, which is 62135596800 s before
\* the epoch; the model's stand-in is far enough for Sub to saturate alike.
ZeroTimeSec == -2000000000
ZeroTime == [sec |-> ZeroTimeSec, nsec |-> 0]

\* time.Parse(time.RFC3339, s) and time.Parse(time.RFC3339Nano, s): when
\* parsing, both layouts accept an optional fractional second.
ParseRFC3339(s) ==
    CASE s = "1970-01-01T00:00:01Z" ->
            [err |-> FALSE, t |-> [sec |-> 1, nsec |-> 0]]
      [] s = "1970-01-01T00:00:00.999999999Z" ->
            [err |-> FALSE, t |-> [sec |-> 0, nsec |-> 999999999]]
      [] s = "1970-01-01T00:00:01.5Z" ->
            [err |-> FALSE, t |-> [sec |-> 1, nsec |-> 500000000]]
      [] OTHER -> [err |-> TRUE, t |-> ZeroTime]

\* time.UnixMilli(msec)
UnixMilli(msec) ==
    [sec |-> msec \div 1000, nsec |-> (msec % 1000) * Millisecond]

\* t.Sub(u): the difference if a Duration can hold it, else the nearest of
\* maxDuration and minDuration.
Sub(t, u) ==
    LET dsec == t.sec - u.sec
        dnsec == t.nsec - u.nsec
    IN  IF dsec > 2 \/ (dsec = 2 /\ dnsec > maxDuration - 2 * Second)
            THEN maxDuration
        ELSE IF dsec < -2 \/ (dsec = -2 /\ dnsec < minDuration + 2 * Second)
            THEN minDuration
        ELSE dsec * Second + dnsec

\* d.Abs()
Abs(d) ==
    IF d >= 0 THEN d
    ELSE IF d = minDuration THEN maxDuration
    ELSE -d

---------------------------------------------------------------------------
(* package time, as far as json_parser.go uses it: a text is parsed under  *)
(* a layout and formatted again.  The parsed time is kept as the parts of  *)
(* its text: date "YYYY-MM-DD", clock "HH:MM:SS", the digits of the        *)
(* fractional second, and the zone "Z" or "+hh:mm" / "-hh:mm".             *)

IsLeap(year) == year % 4 = 0 /\ (year % 100 # 0 \/ year % 400 = 0)

daysIn(month, year) ==
    IF month = 2 THEN (IF IsLeap(year) THEN 29 ELSE 28)
    ELSE IF month \in {4, 6, 9, 11} THEN 30
    ELSE 31

\* "2006-01-02" at the head of s: four digits, two and two, a month of the
\* year and a day of the month
DateOK(s) ==
    /\ Len(s) >= 10
    /\ AllDigits(SubSeq(s, 1, 4))
    /\ CharAt(s, 5) = "-"
    /\ AllDigits(SubSeq(s, 6, 7))
    /\ CharAt(s, 8) = "-"
    /\ AllDigits(SubSeq(s, 9, 10))
    /\ Atoi(SubSeq(s, 6, 7)) \in 1..12
    /\ Atoi(SubSeq(s, 9, 10)) >= 1
    /\ Atoi(SubSeq(s, 9, 10)) <= daysIn(Atoi(SubSeq(s, 6, 7)), Atoi(SubSeq(s, 1, 4)))

\* "15:04:05" at the head of c: an hour of one or two digits, minute and
\* second of two; rest is what follows
ParseClock(c) ==
    LET hl == IF Len(c) >= 2 /\ IsDigit(CharAt(c, 2)) THEN 2 ELSE 1
        ok == /\ Len(c) >= hl + 6
              /\ IsDigit(CharAt(c, 1))
              /\ CharAt(c, hl + 1) = ":"
              /\ AllDigits(SubSeq(c, hl + 2, hl + 3))
              /\ CharAt(c, hl + 4) = ":"
              /\ AllDigits(SubSeq(c, hl + 5, hl + 6))
              /\ Atoi(SubSeq(c, 1, hl)) < 24
              /\ Atoi(SubSeq(c, hl + 2, hl + 3)) < 60
              /\ Atoi(SubSeq(c, hl + 5, hl + 6)) < 60
    IN  IF ~ok THEN [err |-> TRUE, clock |-> "", rest |-> ""]
        ELSE [err |-> FALSE,
              clock |-> (IF hl = 1 THEN "0" ELSE "") \o SubSeq(c, 1, hl + 6),
              rest |-> SubSeq(c, hl + 7, Len(c))]

\* The digits at the head of s
RECURSIVE LeadingDigits(_)
LeadingDigits(s) ==
    IF s # "" /\ IsDigit(Head(s)) THEN Head(s) \o LeadingDigits(Tail(s)) ELSE ""

\* A fractional second at the head of s, if there is one: a period or a
\* comma and then digits
ParseFraction(s) ==
    IF Len(s) >= 2 /\ (Head(s) = "." \/ Head(s) = ",") /\ IsDigit(CharAt(s, 2))
        THEN [frac |-> LeadingDigits(Tail(s)),
              rest |-> SubSeq(s, 2 + Len(LeadingDigits(Tail(s))), Len(s))]
        ELSE [frac |-> "", rest |-> s]

\* cutspace of package time: the spaces at the head of s are dropped
RECURSIVE cutspace(_)
cutspace(s) ==
    IF s # "" /\ Head(s) = " " THEN cutspace(Tail(s)) ELSE s

ParseError == [err |-> TRUE, date |-> "", clock |-> "", frac |-> "", zone |-> ""]

\* time.Parse("2006-01-02 15:04:05", value): the time is in UTC; a
\* fractional second after the seconds is accepted
ParseDateTime(value) ==
    LET afterDate == SubSeq(value, 11, Len(value))
        c == ParseClock(cutspace(afterDate))
        f == ParseFraction(c.rest)
    IN  IF ~DateOK(value) \/ ~HasPrefix(afterDate, " ") \/ c.err \/ f.rest # ""
            THEN ParseError
        ELSE [err |-> FALSE, date |-> SubSeq(value, 1, 10), clock |-> c.clock,
              frac |-> f.frac, zone |-> "Z"]

\* "-0700" at the head of s: a sign and four digits
NumTZOK(s) ==
    /\ Len(s) >= 5
    /\ Head(s) = "+" \/ Head(s) = "-"
    /\ AllDigits(SubSeq(s, 2, 5))
    /\ Atoi(SubSeq(s, 2, 3)) <= 24
    /\ Atoi(SubSeq(s, 4, 5)) <= 60

AllUpper(s) ==
    \A i \in 1..Len(s) : \E j \in 1..Len(UpperLetters) : CharAt(s, i) = CharAt(UpperLetters, j)

\* parseTimeZone of package time on a zone abbreviation that ends the text:
\* three upper-case letters, or four or five that end in T
ZoneNameOK(s) ==
    /\ AllUpper(s)
    /\ \/ Len(s) = 3
       \/ Len(s) \in {4, 5} /\ HasSuffix(s, "T")

\* time.Parse("2006-01-02 15:04:05.999999999 -0700 MST", value): the zone
\* is UTC when the abbreviation says so, and the numeric offset otherwise
ParseHighPrecision(value) ==
    LET afterDate == SubSeq(value, 11, Len(value))
        c == ParseClock(cutspace(afterDate))
        f == ParseFraction(c.rest)
        tz == cutspace(f.rest)
        afterTZ == SubSeq(tz, 6, Len(tz))
        name == cutspace(afterTZ)
    IN  IF \/ ~DateOK(value) \/ ~HasPrefix(afterDate, " ") \/ c.err
           \/ ~HasPrefix(f.rest, " ") \/ ~NumTZOK(tz)
           \/ ~HasPrefix(afterTZ, " ") \/ ~ZoneNameOK(name)
            THEN ParseError
        ELSE [err |-> FALSE, date |-> SubSeq(value, 1, 10), clock |-> c.clock,
              frac |-> f.frac,
              zone |-> IF name = "UTC" \/ SubSeq(tz, 2, 5) = "0000" THEN "Z"
                       ELSE SubSeq(tz, 1, 3) \o ":" \o SubSeq(tz, 4, 5)]

\* "Z07:00" at the end of a text: Z, or a sign, two digits, a colon and two
ISO8601ColonTZOK(s) ==
    \/ s = "Z"
    \/ /\ Len(s) = 6
       /\ Head(s) = "+" \/ Head(s) = "-"
       /\ AllDigits(SubSeq(s, 2, 3))
       /\ CharAt(s, 4) = ":"
       /\ AllDigits(SubSeq(s, 5, 6))
       /\ Atoi(SubSeq(s, 2, 3)) <= 24
       /\ Atoi(SubSeq(s, 5, 6)) <= 60

\* Whether time.Parse(time.RFC3339Nano, value) fails (line 106 keeps the
\* error only)
ParseRFC3339NanoFails(value) ==
    LET c == ParseClock(SubSeq(value, 12, Len(value)))
        f == ParseFraction(c.rest)
    IN  \/ ~DateOK(value)
        \/ CharAt(value, 11) # "T"
        \/ c.err
        \/ ~ISO8601ColonTZOK(f.rest)

\* t.Format(time.RFC3339)
FormatRFC3339(t) == t.date \o "T" \o t.clock \o t.zone

RECURSIVE TrimTrailingZeros(_)
TrimTrailingZeros(s) ==
    IF s # "" /\ CharAt(s, Len(s)) = "0"
        THEN TrimTrailingZeros(SubSeq(s, 1, Len(s) - 1))
        ELSE s

\* t.Format(time.RFC3339Nano): the nanoseconds without their trailing zeros
FormatRFC3339Nano(t) ==
    LET nanos == TrimTrailingZeros(SubSeq(t.frac, 1, IF Len(t.frac) > 9 THEN 9 ELSE Len(t.frac)))
    IN  t.date \o "T" \o t.clock \o (IF nanos = "" THEN "" ELSE "." \o nanos) \o t.zone

---------------------------------------------------------------------------
(* encoding/json, as far as the two decoders use it. A line of a file is  *)
(* [json |-> FALSE] when it is not valid JSON, and [json |-> TRUE, v |-> x]*)
(* with x its JSON value otherwise.  A key that is absent leaves the Go    *)
(* zero value; a value of another JSON type is an error.                   *)

JString(s) == [t |-> "string", v |-> s]
JNumber(n) == [t |-> "number", v |-> n]
JObject(f) == [t |-> "object", v |-> f]

Malformed == [json |-> FALSE]
JSONLine(f) == [json |-> TRUE, v |-> JObject(f)]

UnmarshalString(obj, k) ==
    IF k \notin DOMAIN obj THEN [err |-> FALSE, val |-> ""]
    ELSE IF obj[k].t = "string" THEN [err |-> FALSE, val |-> obj[k].v]
    ELSE [err |-> TRUE, val |-> ""]

UnmarshalInt64(obj, k) ==
    IF k \notin DOMAIN obj THEN [err |-> FALSE, val |-> 0]
    ELSE IF obj[k].t = "number" THEN [err |-> FALSE, val |-> obj[k].v]
    ELSE [err |-> TRUE, val |-> 0]

\* type AvroString struct { String string `json:"string"` }
UnmarshalAvroString(obj, k) ==
    IF k \notin DOMAIN obj THEN [err |-> FALSE, val |-> [String |-> ""]]
    ELSE IF obj[k].t # "object" THEN [err |-> TRUE, val |-> [String |-> ""]]
    ELSE LET r == UnmarshalString(obj[k].v, "string")
         IN  [err |-> r.err, val |-> [String |-> r.val]]

\* type AvroLong struct { Long int64 `json:"long"` }
UnmarshalAvroLong(obj, k) ==
    IF k \notin DOMAIN obj THEN [err |-> FALSE, val |-> [Long |-> 0]]
    ELSE IF obj[k].t # "object" THEN [err |-> TRUE, val |-> [Long |-> 0]]
    ELSE LET r == UnmarshalInt64(obj[k].v, "long")
         IN  [err |-> r.err, val |-> [Long |-> r.val]]

---------------------------------------------------------------------------
(* part_000: the types *)

\* type BinlogKey struct { BinlogFile string; BinlogPosition int64 }
BinlogKey(file, position) == [BinlogFile |-> file, BinlogPosition |-> position]

\* json.Unmarshal(jsonBytes, &binlogEvt), into type BinlogEvent
UnmarshalBinlogEvent(event) ==
    LET eventType == UnmarshalString(event, "event_type")
        timestamp == UnmarshalString(event, "timestamp")
        immediate == UnmarshalString(event, "immediate_commmit_timestamp")
        logPosition == UnmarshalInt64(event, "log_position")
        table == UnmarshalString(event, "table")
        schema == UnmarshalString(event, "schema")
        binlogFile == UnmarshalString(event, "binlog_file")
        gtidNext == UnmarshalString(event, "gtid_next")
    IN  [err |-> \/ eventType.err \/ timestamp.err \/ immediate.err
                 \/ logPosition.err \/ table.err \/ schema.err
                 \/ binlogFile.err \/ gtidNext.err,
         val |-> [EventType |-> eventType.val,
                  Timestamp |-> timestamp.val,
                  ImmediateCommmitTimestamp |-> immediate.val,
                  LogPosition |-> logPosition.val,
                  Table |-> table.val,
                  Schema |-> schema.val,
                  BinlogFile |-> binlogFile.val,
                  GTIDNext |-> gtidNext.val]]

\* json.Unmarshal(scanner.Bytes(), &avroRec), into type AvroRecord (the
\* payload and the fields the comparison never reads are left out)
UnmarshalAvroRecord(line) ==
    IF ~line.json \/ line.v.t # "object"
        THEN [err |-> TRUE]
    ELSE
    LET top == line.v.v
        sourceTimestamp == UnmarshalInt64(top, "source_timestamp")
        hasMeta == "source_metadata" \in DOMAIN top
        metaIsObject == hasMeta /\ top["source_metadata"].t = "object"
        meta == IF metaIsObject THEN top["source_metadata"].v ELSE <<>>
        database == UnmarshalString(meta, "database")
        table == UnmarshalString(meta, "table")
        changeType == UnmarshalAvroString(meta, "change_type")
        gtid == UnmarshalAvroString(meta, "gtid")
        binlogFile == UnmarshalAvroString(meta, "binlog_file")
        binlogPosition == UnmarshalAvroLong(meta, "binlog_position")
    IN  IF \/ sourceTimestamp.err \/ (hasMeta /\ ~metaIsObject)
           \/ database.err \/ table.err \/ changeType.err \/ gtid.err
           \/ binlogFile.err \/ binlogPosition.err
            THEN [err |-> TRUE]
        ELSE [err |-> FALSE,
              val |-> [SourceTimestamp |-> sourceTimestamp.val,
                       SourceMetadata |->
                          [Database |-> database.val,
                           Table |-> table.val,
                           ChangeType |-> changeType.val,
                           GTID |-> gtid.val,
                           BinlogFile |-> binlogFile.val,
                           BinlogPosition |-> binlogPosition.val]]]

---------------------------------------------------------------------------
(* The lines the two input files are drawn from *)

FileA == "mysql-bin.000001"
FileB == "mysql-bin.000002"
FileC == "mysql-bin.000003"
Ts1s == "1970-01-01T00:00:01Z"
Ts1sMinus1ns == "1970-01-01T00:00:00.999999999Z"
TsBad == "1970-01-01 00:00:01"
Gtid1 == "3e11fa47:1"
Gtid2 == "3e11fa47:2"

\* Lines of binlog_metadata.json, as json_parser writes them, that
\* loadBinlogData stores ...
IndexLines ==
    { JSONLine([event_type |-> JString(WriteRowsEventV2),
                binlog_file |-> JString(FileA),
                log_position |-> JNumber(500),
                timestamp |-> JString(Ts1s),
                gtid_next |-> JString(Gtid1)]),
      JSONLine([event_type |-> JString(UpdateRowsEventV2),
                binlog_file |-> JString(FileA),
                log_position |-> JNumber(600),
                timestamp |-> JString(Ts1s),
                immediate_commmit_timestamp |-> JString(Ts1sMinus1ns)]),
      JSONLine([event_type |-> JString(XID),
                binlog_file |-> JString(FileB),
                log_position |-> JNumber(500),
                timestamp |-> JString(TsBad)]) }

\* ... and that it skips: a line that is not JSON, an event of another
\* type, events with no binlog_file, with log_position 0 and with no
\* log_position, an event of another type with no binlog_file, and an event
\* whose event_type is not a string
SkippedLines ==
    { Malformed,
      JSONLine([event_type |-> JString("Query"),
                binlog_file |-> JString(FileA),
                log_position |-> JNumber(700),
                timestamp |-> JString(Ts1s)]),
      JSONLine([event_type |-> JString(UpdateRowsEventV2),
                log_position |-> JNumber(500),
                timestamp |-> JString(Ts1s)]),
      JSONLine([event_type |-> JString(DeleteRowsEventV2),
                binlog_file |-> JString(FileA),
                log_position |-> JNumber(0),
                timestamp |-> JString(Ts1s)]),
      JSONLine([event_type |-> JString(XID),
                binlog_file |-> JString(FileB)]),
      JSONLine([event_type |-> JString("Query"),
                log_position |-> JNumber(700)]),
      JSONLine([event_type |-> JNumber(7),
                binlog_file |-> JString(FileA),
                log_position |-> JNumber(500)]) }

\* The first file of the comparison runs and of the loader runs
CompareBinlogLines == IndexLines \cup {Malformed}
BinlogLines == IndexLines \cup SkippedLines

AvroMeta(file, position, changeType, gtid) ==
    JObject([change_type |-> JObject([string |-> JString(changeType)]),
             gtid |-> JObject([string |-> JString(gtid)]),
             binlog_file |-> JObject([string |-> JString(file)]),
             binlog_position |-> JObject([long |-> JNumber(position)])])

AvroLine(msec, file, position, changeType, gtid) ==
    JSONLine([source_timestamp |-> JNumber(msec),
              source_metadata |-> AvroMeta(file, position, changeType, gtid)])

\* Lines of avro_rows.json, as avro-tools tojson writes them: a line that is
\* not JSON, records with no binlog_file and with binlog_position 0, and
\* records on the keys of IndexLines and on a key of no event.  Against the
\* event at 1 s, 900 and 1100 are 100 ms away, 899 and 1101 are 101 ms away;
\* against the event at 1 s - 1 ns, 1100 is 100 ms + 1 ns away.
AvroLines ==
    { Malformed,
      JSONLine([source_timestamp |-> JNumber(1000),
                source_metadata |->
                    JObject([binlog_position |-> JObject([long |-> JNumber(500)])])]),
      AvroLine(1000, FileA, 0, "INSERT", Gtid1),
      AvroLine(900, FileA, 500, "INSERT", Gtid1),
      AvroLine(1100, FileA, 500, "update", Gtid2),
      AvroLine(1101, FileA, 500, "insert", ""),
      AvroLine(899, FileA, 500, "", Gtid1),
      AvroLine(1100, FileA, 600, "UPDATE", Gtid1),
      AvroLine(1000, FileB, 500, "", ""),
      AvroLine(1000, FileC, 500, "DELETE", Gtid1) }

Gtid1Upper == "3E11FA47:1"

\* Events for the three checks on a joined record: a delete with a GTID, an
\* update with both timestamps, 1 ns apart, a write whose commit timestamp
\* does not parse while its timestamp does, and an XID with no timestamp
CheckBinlogLines ==
    { JSONLine([event_type |-> JString(DeleteRowsEventV2),
                binlog_file |-> JString(FileA),
                log_position |-> JNumber(500),
                timestamp |-> JString(Ts1s),
                gtid_next |-> JString(Gtid1)]),
      JSONLine([event_type |-> JString(UpdateRowsEventV2),
                binlog_file |-> JString(FileA),
                log_position |-> JNumber(600),
                timestamp |-> JString(Ts1s),
                immediate_commmit_timestamp |-> JString(Ts1sMinus1ns)]),
      JSONLine([event_type |-> JString(WriteRowsEventV2),
                binlog_file |-> JString(FileB),
                log_position |-> JNumber(500),
                timestamp |-> JString(Ts1s),
                immediate_commmit_timestamp |-> JString(TsBad),
                gtid_next |-> JString(Gtid1)]),
      JSONLine([event_type |-> JString(XID),
                binlog_file |-> JString(FileB),
                log_position |-> JNumber(600)]) }

\* Records on the keys of CheckBinlogLines and on a key of no event: change
\* types that differ from the event's, in case only, or not at all; GTIDs
\* that differ from the event's, in case only, or not at all, or are empty
CheckAvroLines ==
    { AvroLine(1000, FileA, 500, "INSERT", Gtid1Upper),
      AvroLine(1101, FileA, 500, "delete", Gtid1),
      AvroLine(1100, FileA, 600, "Insert", Gtid2),
      AvroLine(1000, FileA, 600, "update", ""),
      AvroLine(1000, FileB, 500, "UPDATE", Gtid2),
      AvroLine(1000, FileB, 600, "", ""),
      AvroLine(1000, FileC, 500, "DELETE", Gtid1) }

\* Events on one key and around it: two events of indexed types on the key
\* (FileA, 500), events that differ from them in the position only and in
\* the file only, and three events on that key that are not stored: one of
\* another type, one whose timestamp is a number, one with position 0
CollidingBinlogLines ==
    { JSONLine([event_type |-> JString(WriteRowsEventV2),
                binlog_file |-> JString(FileA),
                log_position |-> JNumber(500),
                timestamp |-> JString(Ts1s),
                gtid_next |-> JString(Gtid1)]),
      JSONLine([event_type |-> JString(UpdateRowsEventV2),
                binlog_file |-> JString(FileA),
                log_position |-> JNumber(500),
                timestamp |-> JString(Ts1s),
                gtid_next |-> JString(Gtid2)]),
      JSONLine([event_type |-> JString(UpdateRowsEventV2),
                binlog_file |-> JString(FileA),
                log_position |-> JNumber(600),
                timestamp |-> JString(Ts1s),
                gtid_next |-> JString(Gtid2)]),
      JSONLine([event_type |-> JString(UpdateRowsEventV2),
                binlog_file |-> JString(FileB),
                log_position |-> JNumber(500),
                timestamp |-> JString(Ts1s),
                gtid_next |-> JString(Gtid2)]),
      JSONLine([event_type |-> JString("Query"),
                binlog_file |-> JString(FileA),
                log_position |-> JNumber(500),
                timestamp |-> JString(Ts1s),
                gtid_next |-> JString(Gtid2)]),
      JSONLine([event_type |-> JString(UpdateRowsEventV2),
                binlog_file |-> JString(FileA),
                log_position |-> JNumber(500),
                timestamp |-> JNumber(1),
                gtid_next |-> JString(Gtid2)]),
      JSONLine([event_type |-> JString(UpdateRowsEventV2),
                binlog_file |-> JString(FileA),
                log_position |-> JNumber(0),
                timestamp |-> JString(Ts1s),
                gtid_next |-> JString(Gtid2)]) }

\* Records that look these keys up, all of them an INSERT of Gtid1 at 1 s
LookupAvroLines ==
    { AvroLine(1000, FileA, 500, "INSERT", Gtid1),
      AvroLine(1000, FileA, 600, "INSERT", Gtid1),
      AvroLine(1000, FileB, 500, "INSERT", Gtid1),
      AvroLine(1000, FileB, 600, "INSERT", Gtid1) }

---------------------------------------------------------------------------
(* part_000: loadBinlogData *)

\* (mutant of isRelevantEventType: the filter of lines 126-128 is missing)
isRelevantEventTypeAlways(eventType) == TRUE

\* line 124
isRelevantEventType(eventType) ==
    HasSuffix(eventType, "RowsEventV2") \/ eventType = XID

\* (mutant of MissingBinlogKey: LogPosition is not looked at)
MissingBinlogKeyFileOnly(binlogEvt) ==
    binlogEvt.BinlogFile = ""

\* line 137
MissingBinlogKey(binlogEvt) ==
    binlogEvt.BinlogFile = "" \/ binlogEvt.LogPosition = 0

\* What one iteration of the loop of loadBinlogData does with a line: the
\* first of its continue statements that applies, or "store".
LoadOutcome(line) ==
    IF ~line.json \/ line.v.t # "object" THEN "malformed"
    ELSE LET event == line.v.v
         IN  IF ~("event_type" \in DOMAIN event /\ event["event_type"].t = "string")
                 THEN "no_event_type"
             ELSE IF ~isRelevantEventType(event["event_type"].v)
                 THEN "irrelevant"
             ELSE IF UnmarshalBinlogEvent(event).err
                 THEN "unmarshal_error"
             ELSE IF MissingBinlogKey(UnmarshalBinlogEvent(event).val)
                 THEN "missing_key"
             ELSE "store"

\* The warnings of loadBinlogData (lines 114, 133, 138)
LoadWarning(outcome, n) ==
    CASE outcome = "malformed" ->
            <<[msg |-> "Warning: Skipping malformed binlog JSON line", line |-> n]>>
      [] outcome = "unmarshal_error" ->
            <<[msg |-> "Warning: Error unmarshalling specific binlog event", line |-> n]>>
      [] outcome = "missing_key" ->
            <<[msg |-> "Warning: Skipping binlog event due to missing 'binlog_file' or 'log_position'",
               line |-> n]>>
      [] OTHER -> <<>>

\* (mutant of StoreBinlogEvent: an entry that exists is kept)
StoreBinlogEventOnce(index, binlogEvt) ==
    index @@ BinlogKey(binlogEvt.BinlogFile, binlogEvt.LogPosition) :> binlogEvt

\* lines 142-147: binlogEvents[key] = binlogEvt
StoreBinlogEvent(index, binlogEvt) ==
    BinlogKey(binlogEvt.BinlogFile, binlogEvt.LogPosition) :> binlogEvt @@ index

\* The index after the iteration on a line
LoadedIndex(index, line) ==
    IF LoadOutcome(line) = "store"
        THEN StoreBinlogEvent(index, UnmarshalBinlogEvent(line.v.v).val)
        ELSE index

compareVars == <<lineNum, matches, mismatches, avroOnly, binlogMatchedKeys,
                 binlogOnly, avroRead>>

\* One iteration of the loop of loadBinlogData (lines 110-148)
LoadLine(lines) ==
    /\ pc = "load"
    /\ loadLineNum < MaxBinlogLines
    /\ \E line \in lines :
        /\ loadLineNum' = loadLineNum + 1
        /\ binlogRead' = Append(binlogRead, line)
        /\ binlogEvents' = LoadedIndex(binlogEvents, line)
        /\ stderr' = stderr \o LoadWarning(LoadOutcome(line), loadLineNum + 1)
    /\ UNCHANGED <<pc, stdout>>
    /\ UNCHANGED compareVars
    /\ UNCHANGED parserVars

\* The end of the first file: loadBinlogData returns and main goes on
\* (lines 150, 89-92)
LoadEOF ==
    /\ pc = "load"
    /\ pc' = "compare"
    /\ stdout' = Append(stdout, [kind |-> "Loaded relevant binlog events",
                                 count |-> Cardinality(DOMAIN binlogEvents)])
    /\ UNCHANGED <<binlogEvents, loadLineNum, stderr, binlogRead>>
    /\ UNCHANGED compareVars
    /\ UNCHANGED parserVars

---------------------------------------------------------------------------
(* part_000: compareAvroWithBinlog *)

\* line 176
MissingAvroKey(avroRec) ==
    \/ avroRec.SourceMetadata.BinlogFile.String = ""
    \/ avroRec.SourceMetadata.BinlogPosition.Long = 0

\* (mutant of ParseBinlogTime: Timestamp is looked at first)
ParseBinlogTimeSecondsFirst(binlogEvt) ==
    IF binlogEvt.Timestamp # ""
        THEN ParseRFC3339(binlogEvt.Timestamp)
    ELSE IF binlogEvt.ImmediateCommmitTimestamp # ""
        THEN ParseRFC3339(binlogEvt.ImmediateCommmitTimestamp)
    ELSE [err |-> FALSE, t |-> ZeroTime]

\* lines 197-204: binlogTime, errParseTime
ParseBinlogTime(binlogEvt) ==
    IF binlogEvt.ImmediateCommmitTimestamp # ""
        THEN ParseRFC3339(binlogEvt.ImmediateCommmitTimestamp)
    ELSE IF binlogEvt.Timestamp # ""
        THEN ParseRFC3339(binlogEvt.Timestamp)
    ELSE [err |-> FALSE, t |-> ZeroTime]

\* line 214
tolerance == 100 * Millisecond

\* (mutant of TimestampMismatch: the tolerance itself counts as a mismatch)
TimestampMismatchAtTolerance(avroTime, binlogTime) ==
    Abs(Sub(avroTime, binlogTime)) >= tolerance

\* line 216
TimestampMismatch(avroTime, binlogTime) ==
    Abs(Sub(avroTime, binlogTime)) > tolerance

\* (mutant of GTIDMismatch: the two are compared without their case)
GTIDMismatchIgnoringCase(avroRec, binlogEvt) ==
    /\ avroRec.SourceMetadata.GTID.String # ""
    /\ binlogEvt.GTIDNext # ""
    /\ ToUpper(avroRec.SourceMetadata.GTID.String) # ToUpper(binlogEvt.GTIDNext)

\* lines 223-224
GTIDMismatch(avroRec, binlogEvt) ==
    /\ avroRec.SourceMetadata.GTID.String # ""
    /\ binlogEvt.GTIDNext # ""
    /\ avroRec.SourceMetadata.GTID.String # binlogEvt.GTIDNext

\* lines 231-238
inferredBinlogChangeType(eventType) ==
    IF \/ HasSuffix(eventType, "WriteRowsEventV2")
       \/ HasSuffix(eventType, "WriteRowsV1")
        THEN "INSERT"
    ELSE IF \/ HasSuffix(eventType, "UpdateRowsEventV2")
            \/ HasSuffix(eventType, "UpdateRowsV1")
        THEN "UPDATE"
    ELSE IF \/ HasSuffix(eventType, "DeleteRowsV2")
            \/ HasSuffix(eventType, "DeleteRowsV1")
        THEN "DELETE"
    ELSE ""

\* lines 240-241
ChangeTypeMismatch(avroRec, binlogEvt) ==
    /\ avroRec.SourceMetadata.ChangeType.String # ""
    /\ inferredBinlogChangeType(binlogEvt.EventType) # ""
    /\ ToUpper(avroRec.SourceMetadata.ChangeType.String)
         # ToUpper(inferredBinlogChangeType(binlogEvt.EventType))

Finding(kind, n, key) == [kind |-> kind, line |-> n, key |-> key]

\* lines 206-246: what is printed for a record whose key is in the index
HitFindings(n, key, avroRec, binlogEvt) ==
    LET parsed == ParseBinlogTime(binlogEvt)
    IN  IF parsed.err
            THEN <<Finding("ERROR", n, key)>>
        ELSE
            (IF TimestampMismatch(UnixMilli(avroRec.SourceTimestamp), parsed.t)
                THEN <<Finding("MISMATCH (Timestamp)", n, key)>> ELSE <<>>)
         \o (IF GTIDMismatch(avroRec, binlogEvt)
                THEN <<Finding("MISMATCH (GTID)", n, key)>> ELSE <<>>)
         \o (IF ChangeTypeMismatch(avroRec, binlogEvt)
                THEN <<Finding("MISMATCH (ChangeType)", n, key)>> ELSE <<>>)

\* (mutant of HitMismatches: the increment of line 228 is not commented out)
HitMismatchesWithGTID(avroRec, binlogEvt) ==
    LET parsed == ParseBinlogTime(binlogEvt)
    IN  IF parsed.err THEN 1
        ELSE (IF TimestampMismatch(UnixMilli(avroRec.SourceTimestamp), parsed.t)
                 THEN 1 ELSE 0)
           + (IF GTIDMismatch(avroRec, binlogEvt) THEN 1 ELSE 0)

\* lines 206-246: what is added to mismatches for such a record (lines 209
\* and 217; the increments of lines 228 and 245 are commented out)
HitMismatches(avroRec, binlogEvt) ==
    LET parsed == ParseBinlogTime(binlogEvt)
    IN  IF parsed.err THEN 1
        ELSE IF TimestampMismatch(UnixMilli(avroRec.SourceTimestamp), parsed.t)
            THEN 1
        ELSE 0

\* The local variables of the loop, as one record
Locals ==
    [matches |-> matches, mismatches |-> mismatches, avroOnly |-> avroOnly,
     binlogMatchedKeys |-> binlogMatchedKeys, stdout |-> stdout,
     stderr |-> stderr]

\* lines 171-174
OnUnmarshalError(st, n) ==
    [st EXCEPT !.stderr =
        Append(@, [msg |-> "Warning: Error unmarshalling Avro JSON line", line |-> n])]

\* (mutant of OnMissingAvroKey: the record is counted as Avro-only)
OnMissingAvroKeyCounted(st, n) ==
    [st EXCEPT !.avroOnly = @ + 1,
               !.stderr =
        Append(@, [msg |-> "Warning: Skipping Avro record due to missing 'binlog_file' or 'binlog_position'",
                   line |-> n])]

\* lines 176-179
OnMissingAvroKey(st, n) ==
    [st EXCEPT !.stderr =
        Append(@, [msg |-> "Warning: Skipping Avro record due to missing 'binlog_file' or 'binlog_position'",
                   line |-> n])]

\* (mutant of OnNotFound: the miss also marks the key as matched)
OnNotFoundMarksKey(st, n, key) ==
    [st EXCEPT !.avroOnly = @ + 1,
               !.binlogMatchedKeys = @ \cup {key},
               !.stdout = Append(@, Finding("AVRO_ONLY_BINLOG_KEY", n, key))]

\* (mutant of OnNotFound: the line is printed before what was printed)
OnNotFoundPrintsFirst(st, n, key) ==
    [st EXCEPT !.avroOnly = @ + 1,
               !.stdout = <<Finding("AVRO_ONLY_BINLOG_KEY", n, key)>> \o @]

\* lines 187-192
OnNotFound(st, n, key) ==
    [st EXCEPT !.avroOnly = @ + 1,
               !.stdout = Append(@, Finding("AVRO_ONLY_BINLOG_KEY", n, key))]

\* (mutant of OnFound: the increment of line 195 comes after the continue of
\* line 210)
OnFoundCountsAfterParse(st, n, key, avroRec, binlogEvt) ==
    [st EXCEPT !.binlogMatchedKeys = @ \cup {key},
               !.matches = @ + (IF ParseBinlogTime(binlogEvt).err THEN 0 ELSE 1),
               !.mismatches = @ + HitMismatches(avroRec, binlogEvt),
               !.stdout = @ \o HitFindings(n, key, avroRec, binlogEvt)]

\* lines 194-246
OnFound(st, n, key, avroRec, binlogEvt) ==
    [st EXCEPT !.binlogMatchedKeys = @ \cup {key},
               !.matches = @ + 1,
               !.mismatches = @ + HitMismatches(avroRec, binlogEvt),
               !.stdout = @ \o HitFindings(n, key, avroRec, binlogEvt)]

\* The body of the loop (lines 169-246) on line number n
Iteration(index, st, n, line) ==
    LET dec == UnmarshalAvroRecord(line)
    IN  IF dec.err THEN OnUnmarshalError(st, n)
        ELSE IF MissingAvroKey(dec.val) THEN OnMissingAvroKey(st, n)
        ELSE LET key == BinlogKey(dec.val.SourceMetadata.BinlogFile.String,
                                  dec.val.SourceMetadata.BinlogPosition.Long)
             IN  IF key \notin DOMAIN index
                     THEN OnNotFound(st, n, key)
                     ELSE OnFound(st, n, key, dec.val, index[key])

\* One iteration of the loop of compareAvroWithBinlog (lines 168-247)
CompareLine(lines) ==
    /\ pc = "compare"
    /\ lineNum < MaxAvroLines
    /\ \E line \in lines :
        LET st == Iteration(binlogEvents, Locals, lineNum + 1, line)
        IN  /\ lineNum' = lineNum + 1
            /\ avroRead' = Append(avroRead, line)
            /\ matches' = st.matches
            /\ mismatches' = st.mismatches
            /\ avroOnly' = st.avroOnly
            /\ binlogMatchedKeys' = st.binlogMatchedKeys
            /\ stdout' = st.stdout
            /\ stderr' = st.stderr
    /\ UNCHANGED <<pc, binlogEvents, loadLineNum, binlogOnly, binlogRead>>
    /\ UNCHANGED parserVars

\* lines 258-263
isDML(eventType) ==
    \/ HasSuffix(eventType, "WriteRowsEventV2")
    \/ HasSuffix(eventType, "UpdateRowsEventV2")
    \/ HasSuffix(eventType, "DeleteRowsEventV2")
    \/ HasSuffix(eventType, "WriteRowsEventV1")
    \/ HasSuffix(eventType, "UpdateRowsV1")
    \/ HasSuffix(eventType, "DeleteRowsV1")

\* (mutant of IsBinlogOnly: the isDML test of line 265 is missing)
IsBinlogOnlyAnyType(index, matched, key) ==
    key \notin matched

\* line 257 and line 265: the entry is reported as BINLOG_ONLY
IsBinlogOnly(index, matched, key) ==
    key \notin matched /\ isDML(index[key].EventType)

\* The orders in which a range over a map with these keys may visit them
RangeOrders(keys) ==
    { order \in [1..Cardinality(keys) -> keys] :
        \A i, j \in 1..Cardinality(keys) : i # j => order[i] # order[j] }

\* (mutant of BinlogOnlyFindings: the range ends at the first entry that is
\* not reported)
RECURSIVE BinlogOnlyFindingsUntilSkip(_, _, _)
BinlogOnlyFindingsUntilSkip(index, matched, order) ==
    IF order = <<>> THEN <<>>
    ELSE IF IsBinlogOnly(index, matched, Head(order))
        THEN <<[kind |-> "BINLOG_ONLY (DML)", key |-> Head(order)]>>
             \o BinlogOnlyFindingsUntilSkip(index, matched, Tail(order))
    ELSE <<>>

\* lines 256-271: the BINLOG_ONLY lines, in the order of the range
RECURSIVE BinlogOnlyFindings(_, _, _)
BinlogOnlyFindings(index, matched, order) ==
    IF order = <<>> THEN <<>>
    ELSE (IF IsBinlogOnly(index, matched, Head(order))
             THEN <<[kind |-> "BINLOG_ONLY (DML)", key |-> Head(order)]>>
             ELSE <<>>)
         \o BinlogOnlyFindings(index, matched, Tail(order))

ConsistentText ==
    "CONCLUSION: All Avro records have matching binlog events, and timestamps/metadata are consistent."
DiscrepanciesText ==
    "CONCLUSION: WARNING - There were discrepancies found during comparison."

\* (mutant of Conclusion: binlogOnly is not looked at)
ConclusionWithoutBinlogOnly(nMismatches, nAvroOnly, nBinlogOnly) ==
    IF nMismatches = 0 /\ nAvroOnly = 0
        THEN ConsistentText
        ELSE DiscrepanciesText

\* lines 286-290
Conclusion(nMismatches, nAvroOnly, nBinlogOnly) ==
    IF nMismatches = 0 /\ nAvroOnly = 0 /\ nBinlogOnly = 0
        THEN ConsistentText
        ELSE DiscrepanciesText

\* lines 279-284
Summary(nLines, nMatches, nMismatches, nAvroOnly, nBinlogOnly) ==
    [kind |-> "Comparison Summary",
     processed |-> nLines,
     matched |-> nMatches,
     mismatches |-> nMismatches,
     avroOnly |-> nAvroOnly,
     binlogOnly |-> nBinlogOnly]

\* The end of the second file: the BINLOG_ONLY report, the summary and the
\* conclusion (lines 249-291)
Report ==
    /\ pc = "compare"
    /\ \E order \in RangeOrders(DOMAIN binlogEvents) :
        LET found == BinlogOnlyFindings(binlogEvents, binlogMatchedKeys, order)
        IN  /\ binlogOnly' = Len(found)
            /\ stdout' = stdout
                  \o <<[kind |-> "--- Unmatched Binlog DML Events (BINLOG_ONLY) ---"]>>
                  \o found
                  \o (IF Len(found) = 0
                         THEN <<[kind |-> "No DML binlog events found without a matching Avro record."]>>
                         ELSE <<>>)
                  \o <<Summary(lineNum, matches, mismatches, avroOnly, Len(found)),
                       [kind |-> Conclusion(mismatches, avroOnly, Len(found))]>>
    /\ pc' = "done"
    /\ UNCHANGED <<binlogEvents, loadLineNum, lineNum, matches, mismatches,
                   avroOnly, binlogMatchedKeys, stderr, binlogRead, avroRead>>
    /\ UNCHANGED parserVars

---------------------------------------------------------------------------
(* json_parser.go.  An event is the map currentEvent: nil, or a function   *)
(* from its keys to JSON strings and numbers; the JSON line that           *)
(* json.Marshal prints for it is the object of these keys.                 *)

NilEvent == [nil |-> TRUE, m |-> <<>>]
MakeEvent(m) == [nil |-> FALSE, m |-> m]

\* currentEvent[k] = v
SetField(m, k, v) ==
    [x \in DOMAIN m \cup {k} |-> IF x = k THEN v ELSE m[x]]

\* filepath.Base (line 24)
RECURSIVE TrimSlashes(_)
TrimSlashes(path) ==
    IF path # "" /\ CharAt(path, Len(path)) = "/"
        THEN TrimSlashes(SubSeq(path, 1, Len(path) - 1))
        ELSE path

Base(path) ==
    LET p == TrimSlashes(path)
        last == SubSeq(p, LastIndex(p, "/") + 1, Len(p))
    IN  IF path = "" THEN "."
        ELSE IF last = "" THEN "/"
        ELSE last

\* eventHeaderRegex (line 29), ^=== (.+?) ===$ : whether it matches the
\* line, and its group 1
eventHeaderMatches(line) ==
    /\ Len(line) >= 9
    /\ HasPrefix(line, "=== ")
    /\ HasSuffix(line, " ===")

headerEventType(line) == SubSeq(line, 5, Len(line) - 4)

\* keyValueRegex (line 30), ^([^:]+): (.+)$ : whether it matches the line,
\* and its groups 1 and 2
keyValueMatches(line) ==
    /\ Index(line, ":") >= 2
    /\ Len(line) >= Index(line, ":") + 2
    /\ CharAt(line, Index(line, ":") + 1) = " "

keyValueKey(line) == SubSeq(line, 1, Index(line, ":") - 1)
keyValueValue(line) == SubSeq(line, Index(line, ":") + 2, Len(line))

\* lines 56-65
parsedEventType(title) ==
    IF Contains(title, "WriteRowsEventV2") THEN "WriteRowsEventV2"
    ELSE IF Contains(title, "UpdateRowsEventV2") THEN "UpdateRowsEventV2"
    ELSE IF Contains(title, "DeleteRowsEventV2") THEN "DeleteRowsEventV2"
    ELSE TrimSuffix(title, "Event")

\* (mutant of Flush: a binlog_file that the block has set is kept)
FlushKeepsBodyFile(event, basename) ==
    IF event.nil THEN <<>>
    ELSE IF "binlog_file" \in DOMAIN event.m THEN <<JSONLine(event.m)>>
    ELSE <<JSONLine(SetField(event.m, "binlog_file", JString(basename)))>>

\* lines 45-51 and 144-150: the event is stamped and printed; json.Marshal
\* of a map of strings and int64 does not fail
Flush(event, basename) ==
    IF event.nil THEN <<>>
    ELSE <<JSONLine(SetField(event.m, "binlog_file", JString(basename)))>>

\* A step of the loop body: the event it leaves, and what it prints
Step(event, out, err) == [event |-> event, out |-> out, err |-> err]

\* (mutant of OnHeader: the map of line 53 is not a new one)
OnHeaderKeepsMap(event, basename, line) ==
    Step(MakeEvent(SetField(event.m, "event_type",
                            JString(parsedEventType(headerEventType(line))))),
         Flush(event, basename), <<>>)

\* lines 43-68
OnHeader(event, basename, line) ==
    Step(MakeEvent(SetField(<<>>, "event_type",
                            JString(parsedEventType(headerEventType(line))))),
         Flush(event, basename), <<>>)

\* The keys of the case of line 95
IntegerKeys ==
    {"Table", "Schema", "Query", "XID", "GTID_NEXT", "Commit flag",
     "LAST_COMMITTED", "SEQUENCE_NUMBER", "Transaction length",
     "Immediate server version", "Orignal server version", "TableID", "Flags",
     "Column count", "Slave proxy ID", "Execution time", "Error code",
     "server_version", "version"}

\* lines 96-100 and 134-138
IntegerOrString(value) ==
    IF ParseInt(value).err THEN JString(value) ELSE JNumber(ParseInt(value).val)

\* lines 80-87
OnDate(m, key, normalizedKey, value) ==
    LET t == ParseDateTime(value)
    IN  IF ~t.err
            THEN [m |-> SetField(m, "timestamp", JString(FormatRFC3339(t))),
                  err |-> <<>>]
        ELSE [m |-> SetField(m, normalizedKey, JString(value)),
              err |-> <<[msg |-> "Warning: Failed to parse 'Date' timestamp",
                         value |-> value, key |-> key]>>]

\* (mutant of OnLogPosition: a value that does not parse is not stored)
OnLogPositionDropsValue(m, normalizedKey, value) ==
    IF ~ParseInt(value).err
        THEN [m |-> SetField(m, "log_position", JNumber(ParseInt(value).val)),
              err |-> <<>>]
    ELSE [m |-> m,
          err |-> <<[msg |-> "Warning: Failed to parse 'Log position'",
                     value |-> value]>>]

\* lines 88-94
OnLogPosition(m, normalizedKey, value) ==
    IF ~ParseInt(value).err
        THEN [m |-> SetField(m, "log_position", JNumber(ParseInt(value).val)),
              err |-> <<>>]
    ELSE [m |-> SetField(m, normalizedKey, JString(value)),
          err |-> <<[msg |-> "Warning: Failed to parse 'Log position'",
                     value |-> value]>>]

\* lines 102-122
OnCommitTimestamp(m, key, normalizedKey, value) ==
    IF Contains(value, "(") /\ HasSuffix(value, "Z)")
        THEN LET extractedTimestamp ==
                     SubSeq(value, LastIndex(value, "(") + 1, Len(value) - 1)
             IN  IF ~ParseRFC3339NanoFails(extractedTimestamp)
                     THEN [m |-> SetField(m, normalizedKey, JString(extractedTimestamp)),
                           err |-> <<>>]
                 ELSE [m |-> SetField(m, normalizedKey, JString(value)),
                       err |-> <<[msg |-> "Warning: Could not parse extracted RFC3339Nano",
                                  extracted |-> extractedTimestamp,
                                  value |-> value, key |-> key]>>]
    ELSE LET t == ParseHighPrecision(value)
         IN  IF ~t.err
                 THEN [m |-> SetField(m, normalizedKey, JString(FormatRFC3339Nano(t))),
                       err |-> <<>>]
             ELSE [m |-> SetField(m, normalizedKey, JString(value)),
                   err |-> <<[msg |-> "Warning: Failed to parse high-precision timestamp",
                              value |-> value, key |-> key]>>]

\* lines 124-131
OnEventType(m, value) ==
    IF Contains(value, "WriteRowsEventV2")
        THEN [m |-> SetField(m, "event_type", JString("WriteRowsEventV2")), err |-> <<>>]
    ELSE IF Contains(value, "UpdateRowsEventV2")
        THEN [m |-> SetField(m, "event_type", JString("UpdateRowsEventV2")), err |-> <<>>]
    ELSE IF Contains(value, "DeleteRowsEventV2")
        THEN [m |-> SetField(m, "event_type", JString("DeleteRowsEventV2")), err |-> <<>>]
    ELSE [m |-> m, err |-> <<>>]

\* lines 75-139: the switch on the key of a "key: value" line
OnKeyValue(m, line) ==
    LET key == TrimSpace(keyValueKey(line))
        value == TrimSpace(keyValueValue(line))
        normalizedKey == ToLower(ReplaceAll(key, " ", "_"))
    IN  CASE key = "Date" -> OnDate(m, key, normalizedKey, value)
          [] key = "Log position" -> OnLogPosition(m, normalizedKey, value)
          [] key \in IntegerKeys ->
                [m |-> SetField(m, normalizedKey, IntegerOrString(value)), err |-> <<>>]
          [] key \in {"Immediate commmit timestamp", "Orignal commmit timestamp"} ->
                OnCommitTimestamp(m, key, normalizedKey, value)
          [] key = "Event type" -> OnEventType(m, value)
          [] OTHER ->
                [m |-> SetField(m, normalizedKey, IntegerOrString(value)), err |-> <<>>]

\* lines 70-140: a line that is no header
OnBodyLine(event, line) ==
    IF event.nil \/ ~keyValueMatches(line) THEN Step(event, <<>>, <<>>)
    ELSE Step(MakeEvent(OnKeyValue(event.m, line).m), <<>>,
              OnKeyValue(event.m, line).err)

\* lines 33-140: the body of the loop on the text the scanner returned
LoopBody(event, basename, text) ==
    LET line == TrimSpace(text)
    IN  IF Len(line) = 0 \/ line = "--" THEN Step(event, <<>>, <<>>)
        ELSE IF eventHeaderMatches(line) THEN OnHeader(event, basename, line)
        ELSE OnBodyLine(event, line)

\* lines 16-24
ParserStart ==
    /\ parserPc = "start"
    /\ IF Len(osArgs) < 2
          THEN /\ parserPc' = "usage"
               /\ parserStderr' = parserStderr \o
                     <<[msg |-> "Usage: <current_binlog_filename>", program |-> osArgs[1]],
                       [msg |-> "This program reads binlog text parser output from stdin and converts it to JSON."]>>
               /\ UNCHANGED binlogFileBasename
          ELSE /\ parserPc' = "scan"
               /\ binlogFileBasename' = Base(osArgs[2])
               /\ UNCHANGED parserStderr
    /\ UNCHANGED <<osArgs, currentEvent, parserStdout, stdinRead>>
    /\ UNCHANGED comparatorVars

\* One iteration of the loop of lines 32-141
ScanLine(lines) ==
    /\ parserPc = "scan"
    /\ Len(stdinRead) < MaxStdinLines
    /\ \E text \in lines :
        LET step == LoopBody(currentEvent, binlogFileBasename, text)
        IN  /\ stdinRead' = Append(stdinRead, text)
            /\ currentEvent' = step.event
            /\ parserStdout' = parserStdout \o step.out
            /\ parserStderr' = parserStderr \o step.err
    /\ UNCHANGED <<parserPc, osArgs, binlogFileBasename>>
    /\ UNCHANGED comparatorVars

\* scanner.Scan() answers false, at the end of stdin or on a read error
\* (lines 143-155)
ScanEnd ==
    /\ parserPc = "scan"
    /\ \E readError \in BOOLEAN :
        /\ parserStdout' = parserStdout \o Flush(currentEvent, binlogFileBasename)
        /\ parserStderr' = parserStderr \o
              (IF readError THEN <<[msg |-> "Error reading stdin"]>> ELSE <<>>)
    /\ parserPc' = "done"
    /\ UNCHANGED <<osArgs, binlogFileBasename, currentEvent, stdinRead>>
    /\ UNCHANGED comparatorVars

\* The exit status of json_parser once it has ended: os.Exit(1) at line 19,
\* the return from main at line 156
ParserExitStatus == IF parserPc = "usage" THEN 1 ELSE 0

---------------------------------------------------------------------------
(* The comparison program *)

Init ==
    /\ pc = "load"
    /\ binlogEvents = <<>>
    /\ loadLineNum = 0
    /\ lineNum = 0
    /\ matches = 0
    /\ mismatches = 0
    /\ avroOnly = 0
    /\ binlogMatchedKeys = {}
    /\ binlogOnly = 0
    /\ stdout = <<>>
    /\ stderr = <<>>
    /\ binlogRead = <<>>
    /\ avroRead = <<>>
    /\ parserPc = "idle"
    /\ osArgs = <<>>
    /\ binlogFileBasename = ""
    /\ currentEvent = NilEvent
    /\ parserStdout = <<>>
    /\ parserStderr = <<>>
    /\ stdinRead = <<>>

\* A run of the program on two files
Next ==
    \/ LoadLine(CompareBinlogLines)
    \/ LoadEOF
    \/ CompareLine(AvroLines)
    \/ Report

Spec == Init /\ [][Next]_vars

\* The loading of a first file of any lines
NextLoad ==
    \/ LoadLine(BinlogLines)
    \/ LoadEOF

SpecLoad == Init /\ [][NextLoad]_vars

\* A run of the program on the events and records of the three checks
NextChecks ==
    \/ LoadLine(CheckBinlogLines)
    \/ LoadEOF
    \/ CompareLine(CheckAvroLines)
    \/ Report

SpecChecks == Init /\ [][NextChecks]_vars

\* A run of the program on events that share a key and records that look
\* the keys up
NextIndex ==
    \/ LoadLine(CollidingBinlogLines)
    \/ LoadEOF
    \/ CompareLine(LookupAvroLines)
    \/ Report

SpecIndex == Init /\ [][NextIndex]_vars

---------------------------------------------------------------------------
(* The normalizer *)

\* os.Args: the program alone, or the program and the path of the binlog
ParserArgs ==
    {<<"json_parser">>, <<"json_parser", "/var/lib/mysql/mysql-bin.000001">>}

\* Lines of a dump: two headers, fields, a field with spaces around it, a
\* separator, an empty line and a line that is neither header nor field
BlockLines ==
    {"=== WriteRowsEventV2 ===", "=== QueryEvent ===",
     "Log position: 500", "  Log position: 600  ", "Table: orders",
     "--", "", "Rows:"}

InitParser ==
    /\ pc = "idle"
    /\ binlogEvents = <<>>
    /\ loadLineNum = 0
    /\ lineNum = 0
    /\ matches = 0
    /\ mismatches = 0
    /\ avroOnly = 0
    /\ binlogMatchedKeys = {}
    /\ binlogOnly = 0
    /\ stdout = <<>>
    /\ stderr = <<>>
    /\ binlogRead = <<>>
    /\ avroRead = <<>>
    /\ parserPc = "start"
    /\ osArgs \in ParserArgs
    /\ binlogFileBasename = ""
    /\ currentEvent = NilEvent
    /\ parserStdout = <<>>
    /\ parserStderr = <<>>
    /\ stdinRead = <<>>

\* A run of json_parser on a dump of blocks
NextParser ==
    \/ ParserStart
    \/ ScanLine(BlockLines)
    \/ ScanEnd

SpecParser == InitParser /\ [][NextParser]_vars

\* Paths of the binlog: with directories, without, and with a slash at the
\* end
StampArgs ==
    {<<"json_parser", "/var/lib/mysql/mysql-bin.000001">>,
     <<"json_parser", "mysql-bin.000002">>,
     <<"json_parser", "logs/mysql-bin.000003/">>}

\* A header, two fields whose normalized key is binlog_file, and another
\* field
StampLines ==
    {"=== QueryEvent ===", "binlog_file: other.000009",
     "Binlog file: /x/mysql-bin.000001", "Log position: 500"}

InitStamp ==
    /\ pc = "idle"
    /\ binlogEvents = <<>>
    /\ loadLineNum = 0
    /\ lineNum = 0
    /\ matches = 0
    /\ mismatches = 0
    /\ avroOnly = 0
    /\ binlogMatchedKeys = {}
    /\ binlogOnly = 0
    /\ stdout = <<>>
    /\ stderr = <<>>
    /\ binlogRead = <<>>
    /\ avroRead = <<>>
    /\ parserPc = "start"
    /\ osArgs \in StampArgs
    /\ binlogFileBasename = ""
    /\ currentEvent = NilEvent
    /\ parserStdout = <<>>
    /\ parserStderr = <<>>
    /\ stdinRead = <<>>

\* A run of json_parser on blocks that name a binlog file themselves
NextStamp ==
    \/ ParserStart
    \/ ScanLine(StampLines)
    \/ ScanEnd

SpecStamp == InitStamp /\ [][NextStamp]_vars

\* Headers of a row mutation and of another event, "Event type" lines with
\* a row-mutation name and without one, and a line whose key is event_type
\* once it is normalized
EventTypeLines ==
    {"=== WriteRowsEventV2 ===", "=== QueryEvent ===",
     "Event type: DeleteRowsEventV2 (32)", "Event type: Unknown",
     "Event Type: 7"}

\* A run of json_parser on blocks with lines about the type of the event
NextEventType ==
    \/ ParserStart
    \/ ScanLine(EventTypeLines)
    \/ ScanEnd

SpecEventType == InitParser /\ [][NextEventType]_vars

\* A header, a Date, a Log position and commit timestamps in both forms
\* with values that do not parse, and a Log position that parses
DegradedLines ==
    {"=== QueryEvent ===",
     "Date: yesterday",
     "Log position: 5x", "Log position: 500",
     "Immediate commmit timestamp: soon",
     "Orignal commmit timestamp: 1970 (01Z)"}

\* A run of json_parser on blocks with values that do not parse
NextDegraded ==
    \/ ParserStart
    \/ ScanLine(DegradedLines)
    \/ ScanEnd

SpecDegraded == InitParser /\ [][NextDegraded]_vars

---------------------------------------------------------------------------
(* The two programs, one after the other: json_parser writes the file that *)
(* loadBinlogData reads.                                                   *)

\* One iteration of the loop of loadBinlogData (part_000, lines 110-148) on
\* the next line that json_parser has printed
LoadNormalized ==
    /\ parserPc = "done"
    /\ pc = "load"
    /\ loadLineNum < Len(parserStdout)
    /\ LET line == parserStdout[loadLineNum + 1]
       IN  /\ loadLineNum' = loadLineNum + 1
           /\ binlogRead' = Append(binlogRead, line)
           /\ binlogEvents' = LoadedIndex(binlogEvents, line)
           /\ stderr' = stderr \o LoadWarning(LoadOutcome(line), loadLineNum + 1)
    /\ UNCHANGED <<pc, stdout>>
    /\ UNCHANGED compareVars
    /\ UNCHANGED parserVars

\* Headers of a row mutation, of an XID and of another event, a position, a
\* position of 0 and a table whose name is a number
PipelineLines ==
    {"=== WriteRowsEventV2 ===", "=== XIDEvent ===", "=== QueryEvent ===",
     "Log position: 500", "Log position: 0", "Table: 123"}

InitPipeline ==
    /\ pc = "load"
    /\ binlogEvents = <<>>
    /\ loadLineNum = 0
    /\ lineNum = 0
    /\ matches = 0
    /\ mismatches = 0
    /\ avroOnly = 0
    /\ binlogMatchedKeys = {}
    /\ binlogOnly = 0
    /\ stdout = <<>>
    /\ stderr = <<>>
    /\ binlogRead = <<>>
    /\ avroRead = <<>>
    /\ parserPc = "start"
    /\ osArgs = <<"json_parser", "/var/lib/mysql/mysql-bin.000001">>
    /\ binlogFileBasename = ""
    /\ currentEvent = NilEvent
    /\ parserStdout = <<>>
    /\ parserStderr = <<>>
    /\ stdinRead = <<>>

\* A run of json_parser, and the loading of what it has printed
NextPipeline ==
    \/ ParserStart
    \/ ScanLine(PipelineLines)
    \/ ScanEnd
    \/ LoadNormalized

SpecPipeline == InitPipeline /\ [][NextPipeline]_vars

---------------------------------------------------------------------------
(* What the claims are stated with *)

Last(seq) == seq[Len(seq)]
Range(seq) == { seq[i] : i \in 1..Len(seq) }

\* The step reads a line of the second file; TheAvroLine is that line and
\* NewFindings is what the step prints.
ReadsAvroLine == pc = "compare" /\ Len(avroRead') = Len(avroRead) + 1
TheAvroLine == Last(avroRead')
NewFindings == SubSeq(stdout', Len(stdout) + 1, Len(stdout'))
NewWarnings == SubSeq(stderr', Len(stderr) + 1, Len(stderr'))

\* A line of the second file is a record, an accepted record (one with a
\* file and a position), and the key of an accepted record
IsRecord(line) == ~UnmarshalAvroRecord(line).err
RecordOf(line) == UnmarshalAvroRecord(line).val
IsAccepted(line) ==
    /\ IsRecord(line)
    /\ RecordOf(line).SourceMetadata.BinlogFile.String # ""
    /\ RecordOf(line).SourceMetadata.BinlogPosition.Long # 0
KeyOf(line) ==
    [BinlogFile |-> RecordOf(line).SourceMetadata.BinlogFile.String,
     BinlogPosition |-> RecordOf(line).SourceMetadata.BinlogPosition.Long]
IsJoined(line) == IsAccepted(line) /\ KeyOf(line) \in DOMAIN binlogEvents

\* The step reads a line of the first file; TheBinlogLine is that line.
ReadsBinlogLine == pc = "load" /\ Len(binlogRead') = Len(binlogRead) + 1
TheBinlogLine == Last(binlogRead')

\* The summary and the conclusion that a finished run has printed
PrintedSummary == stdout[Len(stdout) - 1]
PrintedConclusion == Last(stdout).kind

---------------------------------------------------------------------------
(* C1: at the end of every run the conclusion is the "consistent" one if   *)
(* and only if the printed mismatches, Avro-only and binlog-only counters  *)
(* are all zero, and the "discrepancies" one in every other case.          *)
C1_VerdictIffAllZero ==
    pc = "done" =>
        /\ PrintedSummary.kind = "Comparison Summary"
        /\ PrintedSummary.mismatches = mismatches
        /\ PrintedSummary.avroOnly = avroOnly
        /\ PrintedSummary.binlogOnly = binlogOnly
        /\ IF /\ PrintedSummary.mismatches = 0
              /\ PrintedSummary.avroOnly = 0
              /\ PrintedSummary.binlogOnly = 0
              THEN PrintedConclusion = ConsistentText
              ELSE PrintedConclusion = DiscrepanciesText

\* A run that joined two records and ended "consistent"
C1_Witness ==
    /\ pc = "done"
    /\ matches = 2
    /\ PrintedConclusion = ConsistentText

(* C2: for a joined record whose binlog timestamp parses, the Timestamp     *)
(* mismatch is printed and mismatches is incremented if and only if the    *)
(* record's epoch milliseconds and the binlog instant are more than 100 ms *)
(* apart: exactly 100 ms apart is no mismatch.                             *)
NanosApart(msec, t) ==
    LET d == msec * 1000000 - (t.sec * 1000000000 + t.nsec)
    IN  IF d < 0 THEN -d ELSE d

C2_TimestampTolerance ==
    [][ (ReadsAvroLine /\ IsJoined(TheAvroLine)) =>
          LET key == KeyOf(TheAvroLine)
              binlogEvt == binlogEvents[key]
              parsed == ParseBinlogTime(binlogEvt)
              present == binlogEvt.ImmediateCommmitTimestamp # ""
                            \/ binlogEvt.Timestamp # ""
          IN  (present /\ ~parsed.err) =>
                LET apart == NanosApart(RecordOf(TheAvroLine).SourceTimestamp, parsed.t)
                    reported == Finding("MISMATCH (Timestamp)", lineNum', key)
                                    \in Range(NewFindings)
                IN  /\ reported <=> (apart > 100000000)
                    /\ mismatches' = mismatches + (IF apart > 100000000 THEN 1 ELSE 0)
      ]_vars

\* A record 100 ms after its event was joined without a mismatch, then a
\* record 101 ms after it with one
C2_Witness ==
    /\ avroRead = <<AvroLine(1100, FileA, 500, "update", Gtid2),
                    AvroLine(1101, FileA, 500, "insert", "")>>
    /\ matches = 2
    /\ mismatches = 1
    /\ Finding("MISMATCH (Timestamp)", 2, BinlogKey(FileA, 500)) \in Range(stdout)

(* C3: mismatches is incremented only by a Timestamp mismatch or by a      *)
(* timestamp parse error of a joined record; a GTID mismatch or a          *)
(* ChangeType mismatch is printed and leaves mismatches as it is.          *)
C3_AsymmetricCounting ==
    [][ ReadsAvroLine =>
          LET kinds == { f.kind : f \in Range(NewFindings) }
          IN  /\ mismatches' =
                    mismatches + (IF "MISMATCH (Timestamp)" \in kinds \/ "ERROR" \in kinds
                                     THEN 1 ELSE 0)
              /\ ("MISMATCH (Timestamp)" \in kinds \/ "ERROR" \in kinds)
                    => IsJoined(TheAvroLine)
      ]_vars

\* A GTID mismatch and a ChangeType mismatch were printed and mismatches is 0
C3_Witness ==
    /\ Finding("MISMATCH (GTID)", 1, BinlogKey(FileA, 500)) \in Range(stdout)
    /\ Finding("MISMATCH (ChangeType)", 1, BinlogKey(FileA, 500)) \in Range(stdout)
    /\ mismatches = 0

(* C4: an accepted record whose key is not in the index gets one           *)
(* AVRO_ONLY_BINLOG_KEY line and adds one to avroOnly; matches, mismatches *)
(* and the matched keys stay as they are, and the run goes on with the     *)
(* next line.                                                              *)
C4_MissIsAFinding ==
    [][ (ReadsAvroLine /\ IsAccepted(TheAvroLine) /\ ~IsJoined(TheAvroLine)) =>
          /\ NewFindings = <<Finding("AVRO_ONLY_BINLOG_KEY", lineNum', KeyOf(TheAvroLine))>>
          /\ avroOnly' = avroOnly + 1
          /\ UNCHANGED <<matches, mismatches, binlogMatchedKeys, binlogEvents>>
          /\ pc' = "compare"
      ]_vars

\* After a miss on the first line the second line was joined
C4_Witness ==
    /\ Len(avroRead) = 2
    /\ IsAccepted(avroRead[1]) /\ ~IsJoined(avroRead[1])
    /\ avroOnly = 1
    /\ matches = 1

(* C5: when the run is done, binlogOnly is the number of index entries of  *)
(* a row-mutation type whose key is the key of no accepted record of the   *)
(* second file; each of them has exactly one BINLOG_ONLY line, and no      *)
(* other entry (a joined one, an XID one) has any.                         *)
RowMutationTypes == {"WriteRowsEventV2", "UpdateRowsEventV2", "DeleteRowsEventV2"}

JoinedKeys == { KeyOf(avroRead[i]) : i \in { j \in 1..Len(avroRead) : IsAccepted(avroRead[j]) } }

IndexOnlyKeys ==
    { k \in DOMAIN binlogEvents :
        binlogEvents[k].EventType \in RowMutationTypes /\ k \notin JoinedKeys }

BinlogOnlyLines(k) ==
    { i \in 1..Len(stdout) : stdout[i] = [kind |-> "BINLOG_ONLY (DML)", key |-> k] }

C5_IndexOnlyCount ==
    pc = "done" =>
        /\ binlogOnly = Cardinality(IndexOnlyKeys)
        /\ PrintedSummary.binlogOnly = Cardinality(IndexOnlyKeys)
        /\ \A k \in DOMAIN binlogEvents :
              Cardinality(BinlogOnlyLines(k)) = (IF k \in IndexOnlyKeys THEN 1 ELSE 0)

\* The index held an XID entry and a row event, no record was joined, and
\* the row event alone was counted
C5_Witness ==
    /\ pc = "done"
    /\ Cardinality(DOMAIN binlogEvents) = 2
    /\ \E k \in DOMAIN binlogEvents : binlogEvents[k].EventType = "XID"
    /\ matches = 0
    /\ binlogOnly = 1

(* C6: a line that is not a JSON record is skipped with a warning, the     *)
(* lines after it are still processed, and none of the printed counters    *)
(* (records processed, matched, mismatches, Avro-only, binlog-only) counts *)
(* it.  The code counts it in "Total Avro Records Processed".              *)
C6_MalformedLineNotCounted ==
    pc = "done" =>
        /\ PrintedSummary.processed =
              Cardinality({ i \in 1..Len(avroRead) : IsRecord(avroRead[i]) })
        /\ PrintedSummary.matched + PrintedSummary.avroOnly =
              Cardinality({ i \in 1..Len(avroRead) : IsAccepted(avroRead[i]) })
        /\ \A i \in 1..Len(avroRead) :
              ~IsRecord(avroRead[i]) =>
                 [msg |-> "Warning: Error unmarshalling Avro JSON line", line |-> i]
                    \in Range(stderr)

(* C7, as amended: a record with no file or with position 0 is left out of *)
(* the join: matches, mismatches, avroOnly and the matched keys stay as    *)
(* they are and nothing is printed for it but the warning; the one counter *)
(* it advances is lineNum, the records-processed count, which every line   *)
(* read advances.                                                          *)
IsRejected(line) == IsRecord(line) /\ ~IsAccepted(line)

C7_RejectedRecordOnlyCountsAsLine ==
    [][ ReadsAvroLine =>
          /\ lineNum' = lineNum + 1
          /\ IsRejected(TheAvroLine) =>
                /\ UNCHANGED <<matches, mismatches, avroOnly, binlogMatchedKeys,
                               binlogOnly, stdout>>
                /\ NewWarnings =
                      <<[msg |-> "Warning: Skipping Avro record due to missing 'binlog_file' or 'binlog_position'",
                         line |-> lineNum']>>
      ]_vars

\* A record with no binlog_file was read, then a record that was joined,
\* and the summary counts both as processed
C7_Witness ==
    /\ pc = "done"
    /\ Len(avroRead) = 2
    /\ IsRejected(avroRead[1])
    /\ matches = 1
    /\ PrintedSummary.processed = 2

\* C7 as claimed: the counter that tallies the rejected records is a
\* counter of its own, which no other record advances.
C7_RejectedRecordsHaveTheirOwnCounter ==
    [][ ReadsAvroLine =>
          /\ IsRejected(TheAvroLine) =>
                UNCHANGED <<matches, mismatches, avroOnly, binlogMatchedKeys>>
          /\ (IsRecord(TheAvroLine) /\ lineNum' # lineNum) => IsRejected(TheAvroLine)
      ]_vars

(* C8: every entry of the index has an event_type that ends in RowsEventV2 *)
(* or is XID, and is the event_type of a line that was read; an event of   *)
(* another type, or whose event_type is no string, is not indexed.         *)
EndsInRowsEventV2(eventType) ==
    \E n \in 0..Len(eventType) : eventType = SubSeq(eventType, 1, n) \o "RowsEventV2"

HasStringEventType(line) ==
    /\ line.json
    /\ line.v.t = "object"
    /\ "event_type" \in DOMAIN line.v.v
    /\ line.v.v["event_type"].t = "string"

C8_OnlyRelevantTypesIndexed ==
    \A k \in DOMAIN binlogEvents :
        /\ EndsInRowsEventV2(binlogEvents[k].EventType) \/ binlogEvents[k].EventType = "XID"
        /\ \E i \in 1..Len(binlogRead) :
              /\ HasStringEventType(binlogRead[i])
              /\ binlogRead[i].v.v["event_type"].v = binlogEvents[k].EventType
              /\ {"binlog_file", "log_position"} \subseteq DOMAIN binlogRead[i].v.v
              /\ binlogRead[i].v.v["binlog_file"].v = k.BinlogFile
              /\ binlogRead[i].v.v["log_position"].v = k.BinlogPosition

\* A Query event with a file and a position and an event with a number as
\* event_type were read and the index is empty; or one of them and an event
\* that was stored
C8_Witness ==
    /\ Len(binlogRead) = 2
    /\ \E i \in 1..2 :
          /\ HasStringEventType(binlogRead[i])
          /\ binlogRead[i].v.v["event_type"].v = "Query"
          /\ "binlog_file" \in DOMAIN binlogRead[i].v.v
    /\ Cardinality(DOMAIN binlogEvents) = 1

(* C9: no key of the index has an empty BinlogFile or a BinlogPosition of  *)
(* 0; an event of an indexed type with no binlog_file, or with no          *)
(* log_position or one of 0, gets the warning of line 138, leaves the      *)
(* index as it is, and loading goes on.                                    *)
LacksKey(line) ==
    \/ "binlog_file" \notin DOMAIN line.v.v
    \/ line.v.v["binlog_file"].v = ""
    \/ "log_position" \notin DOMAIN line.v.v
    \/ line.v.v["log_position"].v = 0

C9_NoInvalidKeyIndexed ==
    [][ /\ \A k \in DOMAIN binlogEvents' : k.BinlogFile # "" /\ k.BinlogPosition # 0
        /\ ( /\ ReadsBinlogLine
             /\ HasStringEventType(TheBinlogLine)
             /\ isRelevantEventType(TheBinlogLine.v.v["event_type"].v)
             /\ LacksKey(TheBinlogLine) ) =>
                /\ binlogEvents' = binlogEvents
                /\ stderr' = Append(stderr,
                      [msg |-> "Warning: Skipping binlog event due to missing 'binlog_file' or 'log_position'",
                       line |-> loadLineNum'])
                /\ pc' = "load"
      ]_vars

\* An event with position 0 was skipped with the warning and the next event
\* was stored
C9_Witness ==
    /\ Len(binlogRead) = 2
    /\ HasStringEventType(binlogRead[1])
    /\ "log_position" \in DOMAIN binlogRead[1].v.v
    /\ binlogRead[1].v.v["log_position"].v = 0
    /\ Len(stderr) = 1
    /\ Cardinality(DOMAIN binlogEvents) = 1

(* C10: json_parser prints one event for each header line, in the order of *)
(* the headers: an event is printed when the next header is read, the last *)
(* one when the input ends; what is read before the first header prints    *)
(* nothing; and an event holds the type of its own header, the fields of   *)
(* the lines between its header and the next, binlog_file, and no more.    *)
IsHeaderLine(text) == eventHeaderMatches(TrimSpace(text))

HeaderPositions == { i \in 1..Len(stdinRead) : IsHeaderLine(stdinRead[i]) }

\* The position of the j-th header read, and where its block ends
NthHeader(j) ==
    CHOOSE p \in HeaderPositions :
        Cardinality({ q \in HeaderPositions : q < p }) = j - 1

BlockEnd(p) ==
    IF \E q \in HeaderPositions : q > p
        THEN CHOOSE q \in HeaderPositions :
                q > p /\ \A r \in HeaderPositions : r > p => q <= r
        ELSE Len(stdinRead) + 1

\* The fields that the lines i .. q-1 give to the map m
RECURSIVE BlockFields(_, _, _)
BlockFields(m, i, q) ==
    IF i >= q THEN m
    ELSE BlockFields(OnBodyLine(MakeEvent(m), TrimSpace(stdinRead[i])).event.m,
                     i + 1, q)

\* The event of the block of the header at position p
BlockEvent(p) ==
    JSONLine(SetField(
        BlockFields(SetField(<<>>, "event_type",
                        JString(parsedEventType(headerEventType(TrimSpace(stdinRead[p]))))),
                    p + 1, BlockEnd(p)),
        "binlog_file", JString(binlogFileBasename)))

C10_OneEventPerHeader ==
    parserPc \in {"scan", "done"} =>
        LET headers == Cardinality(HeaderPositions)
            printed == IF parserPc = "done" \/ headers = 0 THEN headers
                       ELSE headers - 1
        IN  /\ Len(parserStdout) = printed
            /\ \A j \in 1..printed : parserStdout[j] = BlockEvent(NthHeader(j))

\* A field line, a header, a field line and another header were read and
\* the input ended: two events were printed, the first with the field of
\* its block and without the field read before its header, the second
\* without a field
C10_Witness ==
    /\ parserPc = "done"
    /\ Len(stdinRead) = 4
    /\ HeaderPositions = {2, 4}
    /\ keyValueMatches(TrimSpace(stdinRead[1]))
    /\ Len(parserStdout) = 2
    /\ DOMAIN parserStdout[1].v.v = {"event_type", "log_position", "binlog_file"}
    /\ DOMAIN parserStdout[2].v.v = {"event_type", "binlog_file"}
    /\ parserStdout[1].v.v["event_type"] # parserStdout[2].v.v["event_type"]

(* C11: every event that json_parser prints has a binlog_file, and it is   *)
(* the last element of the path given as argument, whatever the lines of   *)
(* the block say, a line with the key binlog_file included.                *)
AllSlashes(s) == \A i \in 1..Len(s) : CharAt(s, i) = "/"

\* b is the last element of path: it has no slash, stands at the start of
\* the path or after a slash, and only slashes follow it
IsBasenameOf(b, path) ==
    /\ b # ""
    /\ ~Contains(b, "/")
    /\ \E i \in 1..(Len(path) - Len(b) + 1) :
          /\ SubSeq(path, i, i + Len(b) - 1) = b
          /\ i = 1 \/ CharAt(path, i - 1) = "/"
          /\ AllSlashes(SubSeq(path, i + Len(b), Len(path)))

C11_BinlogFileIsBasenameOfArgument ==
    parserPc \in {"scan", "done"} =>
        \A i \in 1..Len(parserStdout) :
            /\ parserStdout[i].json
            /\ "binlog_file" \in DOMAIN parserStdout[i].v.v
            /\ parserStdout[i].v.v["binlog_file"].t = "string"
            /\ IsBasenameOf(parserStdout[i].v.v["binlog_file"].v, osArgs[2])

\* With a path of several elements as argument, a block with a line
\* "binlog_file: other.000009" was printed
C11_Witness ==
    /\ parserPc = "done"
    /\ Contains(osArgs[2], "/")
    /\ stdinRead = <<"=== QueryEvent ===", "binlog_file: other.000009">>
    /\ Len(parserStdout) = 1

(* C12: a program ends with status 1 when an argument is missing or when   *)
(* reading its input fails, and with status 0 in every other case.  Here   *)
(* for json_parser, which ends with status 0 after a failed read of stdin. *)
C12_ExitStatusOneOnFailure ==
    parserPc \in {"usage", "done"} =>
        (ParserExitStatus = 1 <=>
            \/ Len(osArgs) < 2
            \/ [msg |-> "Error reading stdin"] \in Range(parserStderr))

(* C13: the counters and the set of findings of a finished run are a       *)
(* function of the lines of the two files alone: every run on the same     *)
(* two files ends with the same counters and the same findings, in         *)
(* whatever order the range over the index visits its entries.             *)
FindingKinds ==
    {"AVRO_ONLY_BINLOG_KEY", "ERROR", "MISMATCH (Timestamp)", "MISMATCH (GTID)",
     "MISMATCH (ChangeType)", "BINLOG_ONLY (DML)"}

PrintedFindings ==
    { stdout[i] : i \in { j \in 1..Len(stdout) : stdout[j].kind \in FindingKinds } }

\* The index that a fresh run builds from the lines of the first file
RECURSIVE IndexOf(_, _)
IndexOf(index, lines) ==
    IF lines = <<>> THEN index
    ELSE IndexOf(LoadedIndex(index, Head(lines)), Tail(lines))

\* The locals that a fresh run ends its loop with on the lines of the
\* second file
RECURSIVE LocalsOf(_, _, _, _)
LocalsOf(index, st, n, lines) ==
    IF lines = <<>> THEN st
    ELSE LocalsOf(index, Iteration(index, st, n, Head(lines)), n + 1, Tail(lines))

FreshLocals ==
    [matches |-> 0, mismatches |-> 0, avroOnly |-> 0, binlogMatchedKeys |-> {},
     stdout |-> <<>>, stderr |-> <<>>]

C13_ResultIsAFunctionOfTheInputs ==
    pc = "done" =>
        LET index == IndexOf(<<>>, binlogRead)
            st == LocalsOf(index, FreshLocals, 1, avroRead)
            unmatched == { k \in DOMAIN index : k \notin st.binlogMatchedKeys
                                                  /\ isDML(index[k].EventType) }
        IN  /\ matches = st.matches
            /\ mismatches = st.mismatches
            /\ avroOnly = st.avroOnly
            /\ binlogOnly = Cardinality(unmatched)
            /\ PrintedSummary = Summary(Len(avroRead), st.matches, st.mismatches,
                                        st.avroOnly, Cardinality(unmatched))
            /\ PrintedFindings =
                  Range(st.stdout)
                     \cup { [kind |-> "BINLOG_ONLY (DML)", key |-> k] : k \in unmatched }

\* A run that ended with an index of an XID event and a row event, both
\* unmatched, and a finding about a record
C13_Witness ==
    /\ pc = "done"
    /\ Cardinality(DOMAIN binlogEvents) = 2
    /\ \E k \in DOMAIN binlogEvents : binlogEvents[k].EventType = "XID"
    /\ binlogMatchedKeys = {}
    /\ binlogOnly = 1
    /\ avroOnly = 1

(* C14: the findings about the records are printed in the order of the     *)
(* records in the second file: a finding about line i is about the key of  *)
(* the i-th line read, no finding about an earlier line is printed after   *)
(* it, and every BINLOG_ONLY line comes after all of them.                 *)
StreamKinds == FindingKinds \ {"BINLOG_ONLY (DML)"}

C14_FindingsInStreamOrder ==
    \A p \in 1..Len(stdout) :
        /\ stdout[p].kind \in StreamKinds =>
              /\ stdout[p].line \in 1..Len(avroRead)
              /\ IsAccepted(avroRead[stdout[p].line])
              /\ stdout[p].key = KeyOf(avroRead[stdout[p].line])
        /\ \A q \in (p + 1)..Len(stdout) :
              /\ (stdout[p].kind \in StreamKinds /\ stdout[q].kind \in StreamKinds)
                    => stdout[p].line <= stdout[q].line
              /\ stdout[p].kind = "BINLOG_ONLY (DML)"
                    => stdout[q].kind \notin StreamKinds

\* A run that printed two findings about its first record, one about its
\* second, and then a BINLOG_ONLY line
C14_Witness ==
    /\ pc = "done"
    /\ Cardinality({ p \in 1..Len(stdout) :
                        stdout[p].kind \in StreamKinds /\ stdout[p].line = 1 }) = 2
    /\ \E p \in 1..Len(stdout) : stdout[p].kind \in StreamKinds /\ stdout[p].line = 2
    /\ binlogOnly = 1

(* C15: every line of the first file that is skipped because it is not     *)
(* JSON, has no event_type that is a string, or is an event of an indexed  *)
(* type without its key, has a warning with its line number on stderr.     *)
(* The loader skips an event with no string event_type without a word.     *)
SkippedForAnError(line) ==
    \/ ~line.json
    \/ ~HasStringEventType(line)
    \/ /\ isRelevantEventType(line.v.v["event_type"].v)
       /\ LacksKey(line)

C15_EverySkipHasADiagnostic ==
    \A i \in 1..Len(binlogRead) :
        SkippedForAnError(binlogRead[i]) => \E w \in Range(stderr) : w.line = i

---------------------------------------------------------------------------
(* The checks on a joined record, stated on what a run has read and        *)
(* printed.                                                                *)

\* The lines of the second file that were joined, the record and the event
\* of such a line, and whether a finding of a kind was printed for it
JoinedLines == { i \in 1..Len(avroRead) : IsJoined(avroRead[i]) }
RecordAt(i) == RecordOf(avroRead[i])
EventAt(i) == binlogEvents[KeyOf(avroRead[i])]
Reported(kind, i) == Finding(kind, i, KeyOf(avroRead[i])) \in Range(stdout)

(* C16: for a joined record with no timestamp error, the event's type      *)
(* stands for INSERT, UPDATE or DELETE by its write-rows, update-rows or   *)
(* delete-rows suffix, and the ChangeType mismatch is printed if and only  *)
(* if the record's change type is not empty and differs from it, ignoring  *)
(* case.  The code knows no DeleteRowsEventV2.                             *)
MappedKind(eventType) ==
    IF HasSuffix(eventType, "WriteRowsEventV2") \/ HasSuffix(eventType, "WriteRowsV1")
        THEN "INSERT"
    ELSE IF HasSuffix(eventType, "UpdateRowsEventV2") \/ HasSuffix(eventType, "UpdateRowsV1")
        THEN "UPDATE"
    ELSE IF HasSuffix(eventType, "DeleteRowsEventV2") \/ HasSuffix(eventType, "DeleteRowsV1")
        THEN "DELETE"
    ELSE ""

C16_ChangeTypeMapping ==
    \A i \in JoinedLines :
        ~Reported("ERROR", i) =>
            (Reported("MISMATCH (ChangeType)", i) <=>
                /\ RecordAt(i).SourceMetadata.ChangeType.String # ""
                /\ MappedKind(EventAt(i).EventType) # ""
                /\ ToUpper(RecordAt(i).SourceMetadata.ChangeType.String)
                      # MappedKind(EventAt(i).EventType))

(* C17: for a joined record with no timestamp error, the GTID mismatch is  *)
(* printed if and only if the record's GTID and the event's GTID_NEXT are  *)
(* both not empty and are not the same string, a difference of case        *)
(* included; with either of them empty it is not printed.                  *)
C17_GTIDMismatch ==
    \A i \in JoinedLines :
        ~Reported("ERROR", i) =>
            (Reported("MISMATCH (GTID)", i) <=>
                /\ RecordAt(i).SourceMetadata.GTID.String # ""
                /\ EventAt(i).GTIDNext # ""
                /\ RecordAt(i).SourceMetadata.GTID.String # EventAt(i).GTIDNext)

\* A record whose GTID is the event's in upper case got the mismatch, and a
\* record with a GTID on an event without one did not
C17_Witness ==
    /\ Len(avroRead) = 2
    /\ JoinedLines = {1, 2}
    /\ RecordAt(1).SourceMetadata.GTID.String = Gtid1Upper
    /\ EventAt(1).GTIDNext = Gtid1
    /\ Reported("MISMATCH (GTID)", 1)
    /\ RecordAt(2).SourceMetadata.GTID.String = Gtid2
    /\ EventAt(2).GTIDNext = ""
    /\ ~Reported("MISMATCH (GTID)", 2)

(* C18: for a joined record the ERROR line is printed, and no Timestamp    *)
(* mismatch with it, exactly when neither the event's commit timestamp nor *)
(* its timestamp can be parsed.  The code parses only one of the two and   *)
(* parses nothing when both are empty.                                     *)
Parseable(s) == s # "" /\ ~ParseRFC3339(s).err

C18_ErrorIffNeitherParseable ==
    \A i \in JoinedLines :
        /\ Reported("ERROR", i) <=>
              /\ ~Parseable(EventAt(i).ImmediateCommmitTimestamp)
              /\ ~Parseable(EventAt(i).Timestamp)
        /\ Reported("ERROR", i) => ~Reported("MISMATCH (Timestamp)", i)

(* C19: for every joined record, whether the GTID mismatch and whether the *)
(* ChangeType mismatch is printed depends on the GTIDs and the change      *)
(* types of the pair alone, by the conditions of lines 223 and 240, and    *)
(* not on how the timestamp check ended.  After a timestamp error the code *)
(* makes neither check.                                                    *)
C19_ChecksAreIndependent ==
    \A i \in JoinedLines :
        /\ Reported("MISMATCH (GTID)", i) <=> GTIDMismatch(RecordAt(i), EventAt(i))
        /\ Reported("MISMATCH (ChangeType)", i)
              <=> ChangeTypeMismatch(RecordAt(i), EventAt(i))

(* C20: for a joined record, the Timestamp mismatch is decided from the    *)
(* event's commit timestamp alone when the event has one, whatever its     *)
(* second-precision timestamp is, and from its second-precision timestamp  *)
(* when it has no commit timestamp but has that one.                       *)
C20_CommitTimestampPreferred ==
    \A i \in JoinedLines :
        LET commit == EventAt(i).ImmediateCommmitTimestamp
            seconds == EventAt(i).Timestamp
            msec == RecordAt(i).SourceTimestamp
        IN  /\ commit # "" =>
                  (Reported("MISMATCH (Timestamp)", i) <=>
                      /\ Parseable(commit)
                      /\ NanosApart(msec, ParseRFC3339(commit).t) > 100000000)
            /\ (commit = "" /\ seconds # "") =>
                  (Reported("MISMATCH (Timestamp)", i) <=>
                      /\ Parseable(seconds)
                      /\ NanosApart(msec, ParseRFC3339(seconds).t) > 100000000)

\* A record 100 ms after the timestamp and 100 ms + 1 ns after the commit
\* timestamp of its event got the mismatch, and so did a record 101 ms
\* after the timestamp of an event with no commit timestamp
C20_Witness ==
    /\ JoinedLines = {1, 2}
    /\ EventAt(1).ImmediateCommmitTimestamp = Ts1sMinus1ns
    /\ EventAt(1).Timestamp = Ts1s
    /\ RecordAt(1).SourceTimestamp = 1100
    /\ Reported("MISMATCH (Timestamp)", 1)
    /\ EventAt(2).ImmediateCommmitTimestamp = ""
    /\ EventAt(2).Timestamp = Ts1s
    /\ RecordAt(2).SourceTimestamp = 1101
    /\ Reported("MISMATCH (Timestamp)", 2)

(* C21: at every point of a run the index holds, for a key, the event of   *)
(* the last line read that is an event of an indexed type, decodes, and    *)
(* has that file and that non-zero position, and holds nothing for a key   *)
(* of no such line; and a record is checked against that event: it is      *)
(* AVRO_ONLY if and only if there is no such line, and its GTID and        *)
(* ChangeType findings are those of the pair.                              *)
IsIndexable(line) ==
    /\ HasStringEventType(line)
    /\ \/ EndsInRowsEventV2(line.v.v["event_type"].v)
       \/ line.v.v["event_type"].v = "XID"
    /\ ~UnmarshalBinlogEvent(line.v.v).err
    /\ ~LacksKey(line)

LineKey(line) ==
    [BinlogFile |-> line.v.v["binlog_file"].v,
     BinlogPosition |-> line.v.v["log_position"].v]

\* The lines read so far that are indexable on key k, and the event of the
\* last of them
LinesOn(k) ==
    { i \in 1..Len(binlogRead) :
        IsIndexable(binlogRead[i]) /\ LineKey(binlogRead[i]) = k }

LastEventOn(k) ==
    LET last == CHOOSE i \in LinesOn(k) : \A j \in LinesOn(k) : j <= i
    IN  UnmarshalBinlogEvent(binlogRead[last].v.v).val

LookupKeys ==
    DOMAIN binlogEvents
      \cup { LineKey(binlogRead[i]) :
               i \in { j \in 1..Len(binlogRead) : IsIndexable(binlogRead[j]) } }
      \cup { KeyOf(avroRead[i]) :
               i \in { j \in 1..Len(avroRead) : IsAccepted(avroRead[j]) } }

C21_LookupReturnsLastLoaded ==
    /\ \A k \in LookupKeys :
          IF LinesOn(k) = {} THEN k \notin DOMAIN binlogEvents
          ELSE k \in DOMAIN binlogEvents /\ binlogEvents[k] = LastEventOn(k)
    /\ \A i \in 1..Len(avroRead) :
          IsAccepted(avroRead[i]) =>
              LET k == KeyOf(avroRead[i])
              IN  /\ Reported("AVRO_ONLY_BINLOG_KEY", i) <=> LinesOn(k) = {}
                  /\ LinesOn(k) # {} =>
                        /\ Reported("MISMATCH (GTID)", i)
                              <=> GTIDMismatch(RecordAt(i), LastEventOn(k))
                        /\ Reported("MISMATCH (ChangeType)", i)
                              <=> ChangeTypeMismatch(RecordAt(i), LastEventOn(k))

\* Two different events on one key were loaded and a record on that key got
\* the findings of the second and not those of the first, and a record on
\* the same file at another position found nothing
C21_Witness ==
    /\ Len(binlogRead) = 2
    /\ LinesOn(LineKey(binlogRead[1])) = {1, 2}
    /\ UnmarshalBinlogEvent(binlogRead[1].v.v).val.GTIDNext = Gtid1
    /\ UnmarshalBinlogEvent(binlogRead[2].v.v).val.GTIDNext = Gtid2
    /\ Cardinality(DOMAIN binlogEvents) = 1
    /\ Len(avroRead) = 2
    /\ KeyOf(avroRead[1]) = LineKey(binlogRead[1])
    /\ Reported("MISMATCH (GTID)", 1)
    /\ Reported("MISMATCH (ChangeType)", 1)
    /\ KeyOf(avroRead[2]).BinlogFile = KeyOf(avroRead[1]).BinlogFile
    /\ Reported("AVRO_ONLY_BINLOG_KEY", 2)

(* C22: the event_type of every event that json_parser prints is the       *)
(* row-mutation name found in the value of the last "Event type" line of   *)
(* its block that holds one; with no such line, the row-mutation name      *)
(* found in its header; with none there, the header without a trailing     *)
(* "Event".  A line whose key becomes event_type when it is normalized     *)
(* ("Event Type", "event_type") replaces it by its own value.              *)
RecognisedName(text) ==
    IF Contains(text, "WriteRowsEventV2") THEN "WriteRowsEventV2"
    ELSE IF Contains(text, "UpdateRowsEventV2") THEN "UpdateRowsEventV2"
    ELSE IF Contains(text, "DeleteRowsEventV2") THEN "DeleteRowsEventV2"
    ELSE ""

\* The "Event type" lines, with a name that is recognised, of the block of
\* the header at position p
RecognisedEventTypeLines(p) ==
    { i \in (p + 1)..(BlockEnd(p) - 1) :
        LET line == TrimSpace(stdinRead[i])
        IN  /\ keyValueMatches(line)
            /\ TrimSpace(keyValueKey(line)) = "Event type"
            /\ RecognisedName(TrimSpace(keyValueValue(line))) # "" }

ExpectedEventType(p) ==
    LET title == headerEventType(TrimSpace(stdinRead[p]))
        over == RecognisedEventTypeLines(p)
    IN  IF over # {}
            THEN LET last == CHOOSE i \in over : \A j \in over : j <= i
                 IN  RecognisedName(TrimSpace(keyValueValue(TrimSpace(stdinRead[last]))))
        ELSE IF RecognisedName(title) # "" THEN RecognisedName(title)
        ELSE IF HasSuffix(title, "Event") THEN SubSeq(title, 1, Len(title) - 5)
        ELSE title

C22_EventTypeFromHeaderAndEventTypeLines ==
    parserPc \in {"scan", "done"} =>
        \A j \in 1..Len(parserStdout) :
            parserStdout[j].v.v["event_type"] = JString(ExpectedEventType(NthHeader(j)))

(* C23: a Date, Log position or commit-timestamp line of a block whose     *)
(* value does not parse gets one warning with that value on stderr; its    *)
(* value is in the printed event as a string under the lower-cased,        *)
(* underscore-joined key, unless a later line of the block has that key;   *)
(* the lines after it in the block are in the event too; and every block   *)
(* is printed, those after it included.                                    *)
FieldKey(text) == TrimSpace(keyValueKey(TrimSpace(text)))
FieldValue(text) == TrimSpace(keyValueValue(TrimSpace(text)))
NormalizedKey(text) == ToLower(ReplaceAll(FieldKey(text), " ", "_"))

\* The value of the line is one that is parsed and it does not parse
Unparseable(text) ==
    /\ keyValueMatches(TrimSpace(text))
    /\ \/ FieldKey(text) = "Date" /\ ParseDateTime(FieldValue(text)).err
       \/ FieldKey(text) = "Log position" /\ ParseInt(FieldValue(text)).err
       \/ /\ FieldKey(text) \in {"Immediate commmit timestamp", "Orignal commmit timestamp"}
          /\ IF Contains(FieldValue(text), "(") /\ HasSuffix(FieldValue(text), "Z)")
                THEN ParseRFC3339NanoFails(
                        SubSeq(FieldValue(text), LastIndex(FieldValue(text), "(") + 1,
                               Len(FieldValue(text)) - 1))
                ELSE ParseHighPrecision(FieldValue(text)).err

\* The header of the block that the line at position i is in
HeaderOf(i) ==
    CHOOSE p \in HeaderPositions :
        p < i /\ \A q \in HeaderPositions : q < i => q <= p

\* The lines of a block with a value that does not parse, and the values
\* of those among the first n lines, in the order they were read
IsDegraded(i) ==
    /\ ~IsHeaderLine(stdinRead[i])
    /\ \E p \in HeaderPositions : p < i
    /\ Unparseable(stdinRead[i])

DegradedPositions == { i \in 1..Len(stdinRead) : IsDegraded(i) }

RECURSIVE DegradedValues(_)
DegradedValues(n) ==
    IF n = 0 THEN <<>>
    ELSE DegradedValues(n - 1)
           \o (IF IsDegraded(n) THEN <<FieldValue(stdinRead[n])>> ELSE <<>>)

ValueWarnings ==
    SelectSeq(parserStderr, LAMBDA w : "value" \in DOMAIN w)

\* The key under which the event holds what the line gave it
StoredUnder(text) ==
    IF FieldKey(text) = "Date" /\ ~Unparseable(text) THEN "timestamp"
    ELSE NormalizedKey(text)

PrintedEventOf(p) ==
    parserStdout[Cardinality({ q \in HeaderPositions : q <= p })].v.v

C23_UnparseableValueDegrades ==
    parserPc \in {"scan", "done"} =>
        /\ [k \in 1..Len(ValueWarnings) |-> ValueWarnings[k].value]
              = DegradedValues(Len(stdinRead))
        /\ Len(parserStdout) =
              IF parserPc = "done" \/ HeaderPositions = {}
                  THEN Cardinality(HeaderPositions)
                  ELSE Cardinality(HeaderPositions) - 1
        /\ \A i \in DegradedPositions :
              LET p == HeaderOf(i)
                  after == { q \in (i + 1)..(BlockEnd(p) - 1) :
                               keyValueMatches(TrimSpace(stdinRead[q])) }
              IN  Cardinality({ q \in HeaderPositions : q <= p }) <= Len(parserStdout) =>
                      /\ (\A q \in after : StoredUnder(stdinRead[q]) # NormalizedKey(stdinRead[i]))
                            => /\ NormalizedKey(stdinRead[i]) \in DOMAIN PrintedEventOf(p)
                               /\ PrintedEventOf(p)[NormalizedKey(stdinRead[i])]
                                     = JString(FieldValue(stdinRead[i]))
                      /\ \A q \in after :
                            StoredUnder(stdinRead[q]) \in DOMAIN PrintedEventOf(p)

\* A block with a Date that does not parse and then a Log position that
\* does, and a second block with a commit timestamp that does not parse,
\* were both printed, with two warnings
C23_Witness ==
    /\ parserPc = "done"
    /\ stdinRead = <<"=== QueryEvent ===", "Date: yesterday", "Log position: 500",
                     "=== QueryEvent ===", "Immediate commmit timestamp: soon">>
         \/ stdinRead = <<"=== QueryEvent ===", "Date: yesterday",
                          "=== QueryEvent ===", "Immediate commmit timestamp: soon">>
    /\ Len(parserStdout) = 2
    /\ parserStdout[1].v.v["date"] = JString("yesterday")
    /\ parserStdout[2].v.v["immediate_commmit_timestamp"] = JString("soon")
    /\ Len(ValueWarnings) = 2

(* C24: at every point of a run, matches is the number of accepted records *)
(* read whose key is in the index and avroOnly the number of those whose   *)
(* key is not, so that their sum is the number of accepted records read;   *)
(* mismatches is at most matches; and binlogMatchedKeys is the set of the  *)
(* keys of the former, a subset of the keys of the index.                  *)
AcceptedLines == { i \in 1..Len(avroRead) : IsAccepted(avroRead[i]) }

C24_CounterInvariant ==
    /\ matches = Cardinality(JoinedLines)
    /\ avroOnly = Cardinality(AcceptedLines \ JoinedLines)
    /\ matches + avroOnly = Cardinality(AcceptedLines)
    /\ mismatches <= matches
    /\ binlogMatchedKeys = { KeyOf(avroRead[i]) : i \in JoinedLines }
    /\ binlogMatchedKeys \subseteq DOMAIN binlogEvents

\* A line that is no accepted record and a record joined to an event whose
\* timestamp does not parse were read: one match, one mismatch
C24_Witness ==
    /\ Len(avroRead) = 2
    /\ Cardinality(AcceptedLines) = 1
    /\ matches = 1
    /\ mismatches = 1
    /\ avroOnly = 0
    /\ \E i \in JoinedLines : Reported("ERROR", i)

(* C25: every event that json_parser has printed with a row-mutation or    *)
(* XID event_type and a log_position that is an integer other than 0 is,   *)
(* once loadBinlogData has read it, in the index under the key of its      *)
(* binlog_file and log_position, whatever its other fields are.  An event  *)
(* with "Table: 123" has a table that is a number and is not loaded.       *)
C25_NormalizedEventsAreIndexed ==
    \A j \in 1..loadLineNum :
        LET event == parserStdout[j].v.v
        IN  ( /\ event["event_type"].t = "string"
              /\ event["event_type"].v \in RowMutationTypes \cup {"XID"}
              /\ "log_position" \in DOMAIN event
              /\ event["log_position"].t = "number"
              /\ event["log_position"].v # 0 ) =>
                BinlogKey(event["binlog_file"].v, event["log_position"].v)
                    \in DOMAIN binlogEvents

(* C26: at the end of a run the mismatches of the summary is the number of *)
(* joined records for which a Timestamp, GTID or ChangeType mismatch was   *)
(* printed, and a run that concludes that all is consistent has printed no *)
(* MISMATCH and no ERROR line.  The code counts neither the GTID nor the   *)
(* ChangeType mismatches.                                                  *)
MismatchKinds ==
    {"MISMATCH (Timestamp)", "MISMATCH (GTID)", "MISMATCH (ChangeType)"}

MismatchedLines ==
    { i \in JoinedLines : \E kind \in MismatchKinds : Reported(kind, i) }

C26_ConsistentVerdictMeansNoMismatch ==
    pc = "done" =>
        /\ (\A i \in JoinedLines : ~Reported("ERROR", i))
              => PrintedSummary.mismatches = Cardinality(MismatchedLines)
        /\ PrintedConclusion = ConsistentText =>
              \A p \in 1..Len(stdout) :
                  stdout[p].kind \notin MismatchKinds \cup {"ERROR"}

=============================================================================
